---- MODULE Spec2Model ----
(***************************************************************************)
(* The pipeline engine of efes-ng: registration of nodes, construction of  *)
(* the dependency graph, sequential execution, and the per-item cache      *)
(* wrapper with its on-disk cache store and validator.                     *)
(*                                                                         *)
(* Line numbers refer to src/projects/ircyr-xslt/ircyr-xslt.pipeline.ts.   *)
(* The graph itself is the dependency-graph package (DepGraph); its        *)
(* operations are modelled as the call sites use them.                     *)
(***************************************************************************)
EXTENDS Integers, Sequences, FiniteSets, TLC

\* ------------------------------------------------------------ bounds ----

\* How many addNode calls the author's script makes on one Pipeline.
MaxNodes == 2

\* How many times the build script is executed against one working directory.
MaxRuns == 2

\* How many changes the author makes to the working directory between runs.
MaxEnvChanges == 1

\* ----------------------------------------------------------- helpers ----

Range(s) == {s[i] : i \in 1..Len(s)}

\* An optional value: undefined, or a value.
Undefined == [def |-> FALSE]
Some(v) == [def |-> TRUE, v |-> v]

\* ------------------------------------------------- the data model -------

\* Node names an author may use.
Names == {"a", "b", "c"}

None == "-"

\* Input (l.795): a glob string, or a NodeOutputReference (l.785-789).
NoItems == [type |-> "none", node |-> None, name |-> None, glob |-> None]

\* from(node, output, glob) (l.801-807).
from(node, output, glob) ==
    [type |-> "node-output-reference", node |-> node, name |-> output, glob |-> glob]

\* inputIsNodeOutputReference (l.791-793), on the values of this model.
inputIsNodeOutputReference(input) == input.type = "node-output-reference"

\* PipelineNodeConfig (l.813-822) of the nodes the scheduler model registers:
\* a name, at most one declared link to another node (an explicit
\* dependency, a from() reference as items, or a from() reference as a
\* value of the processing config) and whether the node's class defines
\* the onAddedToPipeline hook (l.842).  A from() reference holds the node
\* object it refers to, so it never refers to the node it is part of.
LinkKinds == {"explicit", "items", "config"}

LinkedConfigs ==
    {[name |-> n, hook |-> h,
      explicitDependencies |-> IF k = "explicit" THEN <<d>> ELSE <<>>,
      items  |-> IF k = "items"  THEN from(d, "out", Undefined) ELSE NoItems,
      config |-> IF k = "config" THEN from(d, "out", Undefined) ELSE NoItems]
     : n \in Names, h \in BOOLEAN, k \in LinkKinds, d \in Names}

NodeConfigs ==
    [name : Names, hook : BOOLEAN,
     explicitDependencies : {<<>>}, items : {NoItems}, config : {NoItems}]
    \cup
    {c \in LinkedConfigs : c.items.node # c.name /\ c.config.node # c.name}

\* The NodeOutputReferences a node declares, in items and in the values of
\* its processing config.
declaredRefs(node) ==
    {r \in {node.items, node.config} : inputIsNodeOutputReference(r)}

\* from() takes a constructed node (l.801-807): the references among the
\* node objects of a script follow their order of construction and form no
\* cycle.
RECURSIVE RefReach(_, _, _)
RefReach(cs, frontier, seen) ==
    LET nxt == {r.node : r \in UNION {declaredRefs(cs[i]) :
                                        i \in {j \in 1..Len(cs) : cs[j].name \in frontier}}}
               \ seen
    IN  IF nxt = {} THEN seen ELSE RefReach(cs, nxt, seen \cup nxt)

Constructible(cs) ==
    \A i \in 1..Len(cs) : cs[i].name \notin RefReach(cs, {cs[i].name}, {})

\* ------------------------------------------ strings and characters ----

\* A string is the sequence of its characters; a path is a string.
LowerCase == <<"a", "b", "c", "d", "e", "f", "g", "h", "i", "j", "k", "l", "m",
               "n", "o", "p", "q", "r", "s", "t", "u", "v", "w", "x", "y", "z">>
UpperCase == <<"A", "B", "C", "D", "E", "F", "G", "H", "I", "J", "K", "L", "M",
               "N", "O", "P", "Q", "R", "S", "T", "U", "V", "W", "X", "Y", "Z">>
Digits == {"0", "1", "2", "3", "4", "5", "6", "7", "8", "9"}

\* String.prototype.toLowerCase, one character.
toLowerCase(c) ==
    IF \E i \in DOMAIN UpperCase : UpperCase[i] = c
    THEN LowerCase[CHOOSE i \in DOMAIN UpperCase : UpperCase[i] = c]
    ELSE c

\* The character class [a-zA-Z0-9-_] of l.761 and l.774.
SafeChars == Range(LowerCase) \cup Range(UpperCase) \cup Digits \cup {"-", "_"}
isSafeChar(c) == c \in SafeChars

\* The replacements of sanitizeKey (l.757-762): slashes and backslashes
\* become "-", dots "_", other characters outside [a-zA-Z0-9-_] are
\* removed, the rest is lower-cased.
replaceKeyChars(key) ==
    LET replaced == [i \in 1..Len(key) |->
                        IF key[i] \in {"/", "\\"} THEN "-"
                        ELSE IF key[i] = "." THEN "_" ELSE key[i]]
        kept == SelectSeq(replaced, isSafeChar)
    IN  [i \in 1..Len(kept) |-> toLowerCase(kept[i])]

\* sanitizeKey (l.755-766): the replacements, then the cut at 200
\* characters.
sanitizeKey(key) ==
    LET sanitized == replaceKeyChars(key)
    IN  IF Len(sanitized) > 200 THEN SubSeq(sanitized, 1, 200) ELSE sanitized

\* sanitizeNodeName (l.772-777): every character outside [a-zA-Z0-9-_]
\* becomes "-", runs of "-" collapse to one, the rest is lower-cased.
RECURSIVE sanitizeNodeName(_)
sanitizeNodeName(nodeName) ==
    IF nodeName = <<>> THEN <<>>
    ELSE LET c == IF isSafeChar(Head(nodeName)) THEN toLowerCase(Head(nodeName)) ELSE "-"
             rest == sanitizeNodeName(Tail(nodeName))
         IN  IF c = "-" /\ rest # <<>> /\ Head(rest) = "-" THEN rest ELSE <<c>> \o rest

\* ------------------------------- the pipeline of the cache model --------

\* fileRef(path) (l.809-811).
fileRef(path) == [type |-> "file", path |-> path]

\* An Input that is a glob string (l.795).
globInput(pattern) == [type |-> "glob", node |-> None, name |-> None, glob |-> pattern]

\* An Input that is an array (l.795), of glob strings or node references.
arrayInput(elements) ==
    [type |-> "array", node |-> None, name |-> None, glob |-> None, elements |-> elements]

\* The source files, in directory i, in the order glob lists them.
SourceFiles == << <<"i", "/", "s">>, <<"i", "/", "T">> >>

\* The stylesheet node a's processing config refers to by fileRef.
StylesheetFile == <<"f">>

\* outputFilenameMapping of the two nodes: where the result for an item goes.
OutputOfA == (<<"i", "/", "s">> :> <<"a", "b">>) @@ (<<"i", "/", "T">> :> <<"c", "d">>)
OutputOfB == (<<"a", "b">> :> <<"u">>) @@ (<<"c", "d">> :> <<"v">>)

\* Node a transforms the source files with the stylesheet; node b
\* transforms what a produced.  Both are of one class.
NodeA == [name |-> "a", hook |-> FALSE, explicitDependencies |-> <<>>,
          items |-> globInput(<<"i", "/", "*">>), config |-> fileRef(StylesheetFile),
          class |-> <<"S", "e", "f">>, outputFilenameMapping |-> OutputOfA]
NodeB == [name |-> "b", hook |-> FALSE, explicitDependencies |-> <<>>,
          items |-> from("a", "transformed", Undefined), config |-> NoItems,
          class |-> <<"S", "e", "f">>, outputFilenameMapping |-> OutputOfB]

\* The build script registers b before a.
ScriptNodes == <<NodeB, NodeA>>

\* The script with another outputConfig for node b: its results go to the
\* other file names.  Nothing else of the node differs.
OutputOfBSwapped == (<<"a", "b">> :> <<"v">>) @@ (<<"c", "d">> :> <<"u">>)
NodeBSwapped == [NodeB EXCEPT !.outputFilenameMapping = OutputOfBSwapped]

\* Another build script over the same sources: node a writes its results
\* to the files u and v of the working directory, and node c transforms
\* i/s with a stylesheet its processing config takes from node a's output.
OutputOfAFlat == (<<"i", "/", "s">> :> <<"u">>) @@ (<<"i", "/", "T">> :> <<"v">>)
OutputOfC == (<<"i", "/", "s">> :> <<"w">>)
NodeAFlat == [NodeA EXCEPT !.outputFilenameMapping = OutputOfAFlat]
NodeC == [name |-> "c", hook |-> FALSE, explicitDependencies |-> <<>>,
          items |-> globInput(<<"i", "/", "s">>),
          config |-> from("a", "transformed", Undefined),
          class |-> <<"S", "e", "f">>, outputFilenameMapping |-> OutputOfC]
FlatScriptNodes == <<NodeAFlat, NodeC>>


\* A script whose one node takes its items from two globs that overlap.
NodeAOverlap ==
    [NodeAFlat EXCEPT !.items = arrayInput(<<globInput(<<"i", "/", "*">>),
                                            globInput(<<"i", "/", "s">>)>>)]

\* A script with two nodes of one class and one processing config, a
\* stylesheet from node a's output, whose items are one output of node a
\* narrowed by different globs.
NodeP == [name |-> "b", hook |-> FALSE, explicitDependencies |-> <<>>,
          items |-> from("a", "transformed", Some(<<"u">>)),
          config |-> from("a", "transformed", Undefined),
          class |-> <<"S", "e", "f">>,
          outputFilenameMapping |-> (<<"u">> :> <<"a", "b">>)]
NodeQ == [NodeP EXCEPT !.name = "c",
                       !.items = from("a", "transformed", Some(<<"v">>)),
                       !.outputFilenameMapping = (<<"v">> :> <<"c", "d">>)]

scriptNodes(config) ==
    IF config = "swapped" THEN <<NodeBSwapped, NodeA>>
    ELSE IF config = "flat" THEN FlatScriptNodes
    ELSE IF config = "overlap" THEN <<NodeAOverlap>>
    ELSE IF config = "shared" THEN <<NodeAFlat, NodeP, NodeQ>>
    ELSE ScriptNodes

\* Every path of the working directory the model looks at: sources,
\* stylesheet, outputs, and the one-character paths the validator's scan of
\* an output path touches.
OutputFiles ==
    {OutputOfA[p] : p \in DOMAIN OutputOfA} \cup {OutputOfB[p] : p \in DOMAIN OutputOfB}
    \cup {OutputOfC[p] : p \in DOMAIN OutputOfC}

\* Paths a node may report as its outputs: one in a node's directory under
\* the build directory b, one in a directory whose name begins like the
\* build directory's, one in a custom location.
ReportedPaths == {<<"b", "/", "n", "/", "x">>, <<"b", "b", "/", "x">>, <<"o", "/", "x">>}

Paths == Range(SourceFiles) \cup {StylesheetFile} \cup OutputFiles \cup ReportedPaths
         \cup UNION {{<<p[i]>> : i \in 1..Len(p)} : p \in OutputFiles}

\* A file: its content and its mtimeMs; or no file at the path.
File(content, mtime) == [exists |-> TRUE, content |-> content, mtime |-> mtime]
NoFile == [exists |-> FALSE, content |-> <<>>, mtime |-> 0]

InitialFs ==
    [p \in Paths |-> IF p \in Range(SourceFiles) \cup {StylesheetFile}
                     THEN File(<<0>>, 0) ELSE NoFile]

\* ------------------------------------------------------------ state -----

VARIABLES
    calls,        \* the node objects handed to addNode, in call order
    gNodes,       \* DepGraph: the keys of graph.nodes, in insertion order
    gData,        \* DepGraph: name -> index in calls of the node stored
    gOut,         \* DepGraph: outgoingEdges, name -> list of names
    hookCalls,    \* indexes in calls whose onAddedToPipeline was invoked
    pc,           \* where Pipeline.run stands
    order,        \* executionOrder (l.1090)
    idx,          \* position of the run loop in executionOrder (l.1208)
    started,      \* names whose run method has been invoked, in order
    nodeOutputs,  \* Pipeline.nodeOutputs (l.980): name -> output list or None
    raised,       \* the errors node runs raised, in order
    err,          \* the error Pipeline.run threw, or None
    fs,           \* the working directory: path -> file state
    cache,        \* the cache directory: cache path -> stored entry
    clock,        \* the wall clock (Date.now(), mtimeMs)
    run,          \* which execution of the build script this is
    runStartedAt, \* the clock when this execution began
    envChanges,   \* how often the environment stepped in: the author's
                  \* changes between runs, a write that failed
    wc,           \* the locals of the running node's withCache call
    resolved,     \* run -> node -> the items the node's run resolved
    history,      \* what withCache did: (run, node, item, kind)
    outputConfig, \* the outputConfig the build script gives node b
    call          \* the last direct call of a function: its arguments and result

schedVars == <<calls, gNodes, gData, gOut, hookCalls, pc, order, idx, started,
               nodeOutputs, raised, err>>

cacheVars == <<fs, cache, clock, run, runStartedAt, envChanges, wc, resolved, history,
               outputConfig>>

callVars == <<call>>

vars == <<schedVars, cacheVars, callVars>>

\* No function has been called directly.
NoCall == [op |-> None]

\* The state of the cache store and the working directory before the
\* first run: the source files exist, nothing is built, nothing is cached.
CacheInit ==
    /\ fs = InitialFs
    /\ cache = <<>>
    /\ clock = 1
    /\ run = 1
    /\ runStartedAt = 1
    /\ envChanges = 0
    /\ wc = Undefined
    /\ resolved = [r \in 1..MaxRuns |-> [n \in Names |-> <<>>]]
    /\ history = {}
    /\ outputConfig = "default"
    /\ call = NoCall

\* ---------------------------------------------- the dependency graph ----

\* DepGraph.hasNode, as used at l.1036.
hasNode(nodes, name) == name \in Range(nodes)

\* DepGraph.addDependency on existing nodes, as used at l.1040, l.1058:
\* the edge is appended once.
addDependency(out, f, t) ==
    [out EXCEPT ![f] = IF t \in Range(@) THEN @ ELSE Append(@, t)]

\* The nodes reachable from n along at least one edge.
RECURSIVE ReachFrom(_, _, _)
ReachFrom(out, frontier, seen) ==
    LET nxt == UNION {Range(out[m]) : m \in frontier} \ seen
    IN  IF nxt = {} THEN seen ELSE ReachFrom(out, nxt, seen \cup nxt)

Reachable(out, n) == ReachFrom(out, {n}, {})

\* DepGraph's cycle search, run by overallOrder from every node.
HasCycle(nodes, out) == \E n \in Range(nodes) : n \in Reachable(out, n)

\* DepGraph's depth-first search: dependencies are emitted before the node.
RECURSIVE Visit(_, _, _), VisitAll(_, _, _)
Visit(out, n, res) ==
    IF n \in Range(res) THEN res ELSE Append(VisitAll(out, out[n], res), n)
VisitAll(out, todo, res) ==
    IF todo = <<>> THEN res
    ELSE VisitAll(out, Tail(todo), Visit(out, Head(todo), res))

\* The nodes nothing depends on (incomingEdges empty), in insertion order.
RECURSIVE EntryNodes(_, _)
EntryNodes(nodes, out) ==
    IF nodes = <<>> THEN <<>>
    ELSE LET n == Head(nodes)
             rest == EntryNodes(Tail(nodes), out)
         IN  IF \E m \in DOMAIN out : n \in Range(out[m]) THEN rest
             ELSE <<n>> \o rest

\* DepGraph.overallOrder on an acyclic graph, as used at l.1028, l.1051, l.1090.
overallOrder(nodes, out) == VisitAll(out, EntryNodes(nodes, out), <<>>)

\* ------------------------------------------------------ registration ----

\* DepGraph.addNode as used at l.993: a name already present keeps its data.
graphAddNode(nodes, name) == IF hasNode(nodes, name) THEN nodes ELSE Append(nodes, name)

Init ==
    /\ calls = <<>>
    /\ gNodes = <<>>
    /\ gData = [n \in Names |-> 0]
    /\ gOut = [n \in Names |-> <<>>]
    /\ hookCalls = <<>>
    /\ pc = "building"
    /\ order = <<>>
    /\ idx = 1
    /\ started = <<>>
    /\ nodeOutputs = [n \in Names |-> Undefined]
    /\ raised = <<>>
    /\ err = None
    /\ CacheInit

\* Pipeline.addNode (l.991-1002), one node per call.
addNode(node) ==
    /\ pc = "building"
    /\ Len(calls) < MaxNodes
    /\ Constructible(Append(calls, node))
    /\ calls' = Append(calls, node)
    /\ gNodes' = graphAddNode(gNodes, node.name)
    /\ gData' = IF hasNode(gNodes, node.name) THEN gData
                ELSE [gData EXCEPT ![node.name] = Len(calls) + 1]
    /\ hookCalls' = IF node.hook THEN Append(hookCalls, Len(calls) + 1) ELSE hookCalls
    /\ UNCHANGED <<gOut, pc, order, idx, started, nodeOutputs, raised, err>>
    /\ UNCHANGED <<cacheVars, callVars>>

AddNode == \E node \in NodeConfigs : addNode(node)

\* graph.getNodeData (l.1029, l.1052, l.1209).
getNodeData(name) == calls[gData[name]]

\* -------------------------------------------- building the graph --------

\* The graph while the setup passes run: edges so far and the error thrown.
GraphState(out, e) == [out |-> out, err |-> e]

\* The inner loop without its hasNode test: an unknown name is passed over.
RECURSIVE explicitDepsOfUnchecked(_, _, _)
explicitDepsOfUnchecked(st, name, deps) ==
    IF st.err # None \/ deps = <<>> THEN st
    ELSE IF ~hasNode(gNodes, Head(deps))
         THEN explicitDepsOfUnchecked(st, name, Tail(deps))
         ELSE explicitDepsOfUnchecked(
                 GraphState(addDependency(st.out, name, Head(deps)), None),
                 name, Tail(deps))

\* The inner loop of setupExplicitDependencies (l.1033-1044) for one node.
RECURSIVE explicitDepsOf(_, _, _)
explicitDepsOf(st, name, deps) ==
    IF st.err # None \/ deps = <<>> THEN st
    ELSE IF ~hasNode(gNodes, Head(deps))
         THEN GraphState(st.out, "unknown-dependency")
         ELSE explicitDepsOf(GraphState(addDependency(st.out, name, Head(deps)), None),
                             name, Tail(deps))

\* setupExplicitDependencies (l.1026-1047): the loop over overallOrder().
RECURSIVE explicitLoop(_, _)
explicitLoop(st, names) ==
    IF st.err # None \/ names = <<>> THEN st
    ELSE explicitLoop(
            explicitDepsOf(st, Head(names), getNodeData(Head(names)).explicitDependencies),
            Tail(names))

setupExplicitDependencies(out) ==
    IF HasCycle(gNodes, out) THEN GraphState(out, "cycle")
    ELSE explicitLoop(GraphState(out, None), overallOrder(gNodes, out))

\* The body of the loop of setupAutomaticDependencies for one node
\* (l.1052-1076).  The second scan goes over Object.entries(node.config),
\* the entries of the PipelineNodeConfig: name, items, config,
\* outputConfig, explicitDependencies.  Of these only items can be a
\* NodeOutputReference; the processing config (node.config.config) is one
\* value of the scan and its own values are not looked at.
automaticDepsOf(st, name) ==
    LET node == getNodeData(name)
    IN  IF st.err # None THEN st
        ELSE IF inputIsNodeOutputReference(node.items)
             THEN IF hasNode(gNodes, node.items.node)
                  THEN GraphState(addDependency(st.out, name, node.items.node), None)
                  ELSE GraphState(st.out, "node-does-not-exist")
             ELSE st

RECURSIVE automaticLoop(_, _)
automaticLoop(st, names) ==
    IF st.err # None \/ names = <<>> THEN st
    ELSE automaticLoop(automaticDepsOf(st, Head(names)), Tail(names))

\* setupAutomaticDependencies (l.1049-1078).
setupAutomaticDependencies(st) ==
    IF st.err # None THEN st
    ELSE IF HasCycle(gNodes, st.out) THEN GraphState(st.out, "cycle")
    ELSE automaticLoop(st, overallOrder(gNodes, st.out))

\* executionOrder (l.1090).
executionOrder(st) ==
    IF st.err # None THEN st
    ELSE IF HasCycle(gNodes, st.out) THEN GraphState(st.out, "cycle")
    ELSE st

\* The run loop walking the nodes in registration order.
runOrderAsRegistered(out) == gNodes

\* The order the run loop walks (l.1090, l.1208).
runOrder(out) == overallOrder(gNodes, out)

\* Pipeline.run up to its first await (l.1080-1090 and the entry of the loop).
RunStart ==
    /\ pc = "building"
    /\ LET st == executionOrder(setupAutomaticDependencies(setupExplicitDependencies(gOut)))
       IN  /\ gOut' = st.out
           /\ err' = st.err
           /\ order' = IF st.err = None THEN runOrder(st.out) ELSE <<>>
           /\ pc' = IF st.err # None THEN "config-error"
                    ELSE IF gNodes = <<>> THEN "done" ELSE "running"
    /\ idx' = 1
    /\ UNCHANGED <<calls, gNodes, gData, hookCalls, started, nodeOutputs, raised>>
    /\ UNCHANGED <<cacheVars, callVars>>

\* ------------------------------------------------------ the run loop ----

\* The loop invoking a node's run without awaiting the run before it.
NodeStartWithoutAwait ==
    /\ \/ pc = "running" /\ idx' = idx
       \/ pc = "in-node" /\ idx < Len(order) /\ idx' = idx + 1
    /\ started' = Append(started, order[idx'])
    /\ pc' = "in-node"
    /\ UNCHANGED <<calls, gNodes, gData, gOut, hookCalls, order, nodeOutputs, raised, err>>
    /\ UNCHANGED <<cacheVars, callVars>>

\* l.1208-1213: the next node's run is invoked.
NodeStart ==
    /\ pc = "running"
    /\ started' = Append(started, order[idx])
    /\ pc' = "in-node"
    /\ UNCHANGED <<calls, gNodes, gData, gOut, hookCalls, order, idx, nodeOutputs, raised, err>>
    /\ UNCHANGED <<cacheVars, callVars>>

\* Where the loop stands after the node at idx completed.
afterNode == IF idx = Len(order) THEN "done" ELSE "running"

\* l.1213-1217: run returned; its output list is stored under the node's name.
NodeReturn ==
    /\ pc = "in-node"
    /\ nodeOutputs' = [nodeOutputs EXCEPT ![order[idx]] = Some(<<>>)]
    /\ idx' = idx + 1
    /\ pc' = afterNode
    /\ UNCHANGED <<calls, gNodes, gData, gOut, hookCalls, order, started, raised, err>>
    /\ UNCHANGED <<cacheVars, callVars>>

\* What a node's run may raise: an error of resolveInput or of its work.
NodeErrors == {"resolution-error", "work-error"}

\* The catch block logging the error and going on with the next node.
catchNodeErrorAndContinue(e) ==
    /\ pc' = afterNode
    /\ idx' = idx + 1
    /\ UNCHANGED <<err, nodeOutputs>>

\* The catch block storing an empty output list for the node that failed.
catchNodeErrorStoringOutputs(e) ==
    /\ pc' = "failed"
    /\ err' = e
    /\ nodeOutputs' = [nodeOutputs EXCEPT ![order[idx]] = Some(<<>>)]
    /\ UNCHANGED idx

\* l.1218-1222: run threw e; the error is logged and thrown again.
catchNodeError(e) ==
    /\ pc' = "failed"
    /\ err' = e
    /\ UNCHANGED <<idx, nodeOutputs>>

NodeThrow ==
    /\ pc = "in-node"
    /\ \E e \in NodeErrors :
          /\ raised' = Append(raised, e)
          /\ catchNodeError(e)
    /\ UNCHANGED <<calls, gNodes, gData, gOut, hookCalls, order, started>>
    /\ UNCHANGED <<cacheVars, callVars>>

\* ------------------------------------------------- resolving inputs ----

\* What a call that may throw yields: the value, or the error it threw.
Returned(paths) == [ok |-> TRUE, paths |-> paths, error |-> None]
Threw(error) == [ok |-> FALSE, paths |-> <<>>, error |-> error]

\* Whether a glob pattern matches a path: "*" stands for any run of
\* characters within one path segment, every other character for itself.
RECURSIVE matchesPattern(_, _)
matchesPattern(pattern, path) ==
    IF pattern = <<>> THEN path = <<>>
    ELSE IF Head(pattern) = "*"
         THEN \/ matchesPattern(Tail(pattern), path)
              \/ path # <<>> /\ Head(path) # "/" /\ matchesPattern(pattern, Tail(path))
         ELSE path # <<>> /\ Head(path) = Head(pattern)
                          /\ matchesPattern(Tail(pattern), Tail(path))

\* A set as a sequence, in some fixed order.
RECURSIVE SetToSeq(_)
SetToSeq(set) ==
    IF set = {} THEN <<>>
    ELSE LET x == CHOOSE y \in set : TRUE IN <<x>> \o SetToSeq(set \ {x})

\* The order in which glob lists the files of the working directory.
DirectoryListing == SourceFiles \o SetToSeq(Paths \ Range(SourceFiles))

\* glob(pattern) (l.1120, l.1137): the existing files the pattern matches.
\* files maps every path of the working directory to its file state.
glob(files, pattern) ==
    SelectSeq(DirectoryListing, LAMBDA f : files[f].exists /\ matchesPattern(pattern, f))

\* flatMap(output => output[name]).filter(x => x !== undefined) (l.1097).
RECURSIVE flatMapOutputs(_, _)
flatMapOutputs(outputs, name) ==
    IF outputs = <<>> THEN <<>>
    ELSE (IF name \in DOMAIN Head(outputs) THEN Head(outputs)[name] ELSE <<>>)
         \o flatMapOutputs(Tail(outputs), name)

\* The build directory of the pipeline (l.985).
buildDir == <<"b">>

\* String.prototype.startsWith.
startsWith(string, prefix) ==
    Len(prefix) <= Len(string) /\ SubSeq(string, 1, Len(prefix)) = prefix

\* l.1111-1117: the pattern an upstream output path is tested against.
globPattern(outputPath, pattern) ==
    IF startsWith(outputPath, buildDir)
    THEN buildDir \o <<"/", "*", "/">> \o pattern
    ELSE pattern

\* results.push(...paths) over the elements' results (l.1146-1149).
RECURSIVE concat(_)
concat(lists) == IF lists = <<>> THEN <<>> ELSE Head(lists) \o concat(Tail(lists))

\* resolveInput, were the list of a node that has not run or has no path
\* under the key returned as it is, empty.
RECURSIVE resolveInputOrEmpty(_, _, _)
resolveInputOrEmpty(files, stored, input) ==
    IF inputIsNodeOutputReference(input)
    THEN LET outputs == IF stored[input.node].def
                        THEN flatMapOutputs(stored[input.node].v, input.name) ELSE <<>>
             filtered == SelectSeq(outputs,
                             LAMBDA o : o \in Range(glob(files, globPattern(o, input.glob.v))))
         IN  IF outputs = <<>> THEN Returned(outputs)
             ELSE IF ~input.glob.def THEN Returned(outputs)
             ELSE IF filtered = <<>> THEN Threw("no-files-match-pattern")
                  ELSE Returned(filtered)
    ELSE IF input.type = "glob"
         THEN IF glob(files, input.glob) = <<>> THEN Threw("no-files-found-for-pattern")
              ELSE Returned(glob(files, input.glob))
         ELSE IF input.type = "array"
              THEN LET each == [i \in 1..Len(input.elements) |->
                                   resolveInputOrEmpty(files, stored, input.elements[i])]
                       threw == {i \in 1..Len(input.elements) : ~each[i].ok}
                   IN  IF threw # {}
                       THEN each[CHOOSE i \in threw : \A j \in threw : i <= j]
                       ELSE Returned(concat([i \in 1..Len(input.elements) |-> each[i].paths]))
              ELSE Returned(<<>>)

\* resolveInput, were the matches of a glob string returned as they are,
\* none included.
RECURSIVE resolveInputGlobOrEmpty(_, _, _)
resolveInputGlobOrEmpty(files, stored, input) ==
    IF inputIsNodeOutputReference(input)
    THEN LET outputs == IF stored[input.node].def
                        THEN flatMapOutputs(stored[input.node].v, input.name) ELSE <<>>
             filtered == SelectSeq(outputs,
                             LAMBDA o : o \in Range(glob(files, globPattern(o, input.glob.v))))
         IN  IF outputs = <<>> THEN Threw("node-has-not-run-or-no-outputs")
             ELSE IF ~input.glob.def THEN Returned(outputs)
             ELSE IF filtered = <<>> THEN Threw("no-files-match-pattern")
                  ELSE Returned(filtered)
    ELSE IF input.type = "glob"
         THEN Returned(glob(files, input.glob))
         ELSE IF input.type = "array"
              THEN LET each == [i \in 1..Len(input.elements) |->
                                   resolveInputGlobOrEmpty(files, stored, input.elements[i])]
                       threw == {i \in 1..Len(input.elements) : ~each[i].ok}
                   IN  IF threw # {}
                       THEN each[CHOOSE i \in threw : \A j \in threw : i <= j]
                       ELSE Returned(concat([i \in 1..Len(input.elements) |-> each[i].paths]))
              ELSE Returned(<<>>)

\* context.resolveInput (l.1093-1154): a node reference, a glob string, an
\* array whose elements are resolved in turn (the first error leaves the
\* call), and the empty list for any other value (l.1153).
RECURSIVE resolveInput(_, _, _)
resolveInput(files, stored, input) ==
    IF inputIsNodeOutputReference(input)
    THEN LET outputs == IF stored[input.node].def
                        THEN flatMapOutputs(stored[input.node].v, input.name) ELSE <<>>
             filtered == SelectSeq(outputs,
                             LAMBDA o : o \in Range(glob(files, globPattern(o, input.glob.v))))
         IN  IF outputs = <<>> THEN Threw("node-has-not-run-or-no-outputs")
             ELSE IF ~input.glob.def THEN Returned(outputs)
             ELSE IF filtered = <<>> THEN Threw("no-files-match-pattern")
                  ELSE Returned(filtered)
    ELSE IF input.type = "glob"
         THEN IF glob(files, input.glob) = <<>> THEN Threw("no-files-found-for-pattern")
              ELSE Returned(glob(files, input.glob))
         ELSE IF input.type = "array"
              THEN LET each == [i \in 1..Len(input.elements) |->
                                   resolveInput(files, stored, input.elements[i])]
                       threw == {i \in 1..Len(input.elements) : ~each[i].ok}
                   IN  IF threw # {}
                       THEN each[CHOOSE i \in threw : \A j \in threw : i <= j]
                       ELSE Returned(concat([i \in 1..Len(input.elements) |-> each[i].paths]))
              ELSE Returned(<<>>)

\* ------------------------------------------------ the cache manager ----

\* computeFileHash (l.642-647): the SHA-256 digest of the file's content;
\* different contents have different digests.
computeFileHash(files, filePath) == [sha256 |-> files[filePath].content]

\* computeOutputSignature (l.570-574): the digest of the sorted paths
\* joined by "|"; it depends on which paths occur how often, not on order.
computeOutputSignature(filePaths) ==
    [sha256 |-> [q \in Range(filePaths) |->
                    Cardinality({i \in 1..Len(filePaths) : filePaths[i] = q})]]

\* getCachePath (l.749-753): directory and file name of an entry.  A content
\* signature is a class name, "-" and eight hexadecimal digits (l.881); the
\* digits pass sanitizeNodeName unchanged.
getCachePath(contentSignature, itemKey) ==
    <<[class |-> sanitizeNodeName(contentSignature.class), digest |-> contentSignature.digest],
      sanitizeKey(itemKey)>>

\* What a cache file holds when fs.writeFile (l.478) stopped before the
\* end of the JSON text, and whether JSON.parse (l.459) accepts a file's
\* content.
PartialFile == [partial |-> TRUE]
parses(content) == "partial" \notin DOMAIN content

\* getCache (l.454-464): a file that is missing or does not parse is null.
getCache(store, contentSignature, itemKey) ==
    IF /\ getCachePath(contentSignature, itemKey) \in DOMAIN store
       /\ parses(store[getCachePath(contentSignature, itemKey)])
    THEN Some(store[getCachePath(contentSignature, itemKey)]) ELSE Undefined

\* setCache (l.470-483).
setCache(store, contentSignature, itemKey, entry) ==
    [cp \in DOMAIN store \cup {getCachePath(contentSignature, itemKey)} |->
        IF cp = getCachePath(contentSignature, itemKey) THEN entry ELSE store[cp]]

\* cleanExcept, were no file unlinked.
cleanExceptNothing(store, contentSignature, currentItemKeys) == store

\* cleanExcept (l.583-600): in the directory of the signature, every file
\* that is not the entry of one of the current keys is unlinked.
cleanExcept(store, contentSignature, currentItemKeys) ==
    LET dir == getCachePath(contentSignature, <<>>)[1]
        keep == {cp \in DOMAIN store :
                    cp[1] # dir \/ cp[2] \in {sanitizeKey(k) : k \in Range(currentItemKeys)}}
    IN  [cp \in keep |-> store[cp]]

\* clear (l.606-623): the directory of the signature is removed with all
\* its files, or without a signature the whole cache directory.
clear(store, contentSignature) ==
    IF contentSignature.def
    THEN [cp \in {cp \in DOMAIN store : cp[1] # getCachePath(contentSignature.v, <<>>)[1]} |->
             store[cp]]
    ELSE <<>>

\* A JavaScript array of strings, and an object whose values are arrays of
\* strings: Object.values gives the elements of the one and the values of
\* the other.
ArrayOfStrings(strings) == [kind |-> "array-of-strings", values |-> strings]
ObjectOfArrays(arrays) == [kind |-> "object-of-arrays", values |-> arrays]

\* buildCacheEntry (l.678-744), with its eight parameters in their order.
\* files is the working directory and now is Date.now() at the call.
buildCacheEntry(files, now, itemPaths, outputsByKey, outputBaseDir, itemKey, discoveredDependencies, fileRefPaths, upstreamOutputSignatures, precomputedHashes) ==
    LET stat(src, fp) == [hash |-> computeFileHash(files, fp),
                          timestamp |-> files[fp].mtime, source |-> src]
        items == {fp \in Range(itemPaths) : files[fp].exists}
        refs  == IF fileRefPaths.def /\ precomputedHashes.def
                 THEN {fp \in Range(fileRefPaths.v) : fp \in DOMAIN precomputedHashes.v}
                 ELSE {}
        disc  == IF discoveredDependencies.def
                 THEN {fp \in Range(discoveredDependencies.v) : files[fp].exists}
                 ELSE {}
    IN  [outputsByKey |-> outputsByKey,
         outputBaseDir |-> outputBaseDir,
         trackedFiles |->
            [fp \in items \cup refs \cup disc |->
                IF fp \in disc THEN stat("discovered", fp)
                ELSE IF fp \in refs
                     THEN [hash |-> precomputedHashes.v[fp].hash,
                           timestamp |-> precomputedHashes.v[fp].timestamp,
                           source |-> "fileRef"]
                     ELSE stat("item", fp)],
         upstreamOutputSignatures |-> upstreamOutputSignatures,
         timestamp |-> now,
         itemKey |-> itemKey]

\* The paths the third check of isValid probes (l.553-561):
\*   for (const paths of Object.values(entry.outputsByKey))
\*     for (const outputPath of paths) fs.access(outputPath)
\* for...of over an array of paths yields the paths; over a string it
\* yields the string's characters, each a one-character path.
RECURSIVE probedPaths(_, _)
probedPaths(kind, values) ==
    IF values = <<>> THEN {}
    ELSE (IF kind = "array-of-strings"
          THEN {<<Head(values)[i]>> : i \in 1..Len(Head(values))}
          ELSE Range(Head(values)))
         \cup probedPaths(kind, Tail(values))

\* isValid without the comparison of content hashes: a tracked file that
\* exists passes.
isValidIgnoringContent(entry, context) ==
    /\ \A fp \in DOMAIN entry.trackedFiles : fs[fp].exists
    /\ \A op \in probedPaths(entry.outputsByKey.kind, entry.outputsByKey.values) :
           op \in Paths /\ fs[op].exists

\* The fields isValid reads are there.
hasFields(entry) == {"trackedFiles", "outputsByKey"} \subseteq DOMAIN entry

\* Check 1 of isValid (l.505-528) passes or is skipped.
upstreamSignaturesMatch(entry, context) ==
    (entry.upstreamOutputSignatures.def /\ context.def) =>
        \A nodeName \in DOMAIN entry.upstreamOutputSignatures.v :
            LET upstreamInfo == entry.upstreamOutputSignatures.v[nodeName]
                current == resolveInput(fs, nodeOutputs,
                               from(nodeName, upstreamInfo.outputKey, upstreamInfo.glob))
            IN  /\ current.ok
                /\ computeOutputSignature(current.paths) = upstreamInfo.signature

\* Check 2 of isValid (l.531-550) passes: every tracked file is there with
\* the recorded mtime or the recorded content hash.
trackedFilesUnchanged(entry) ==
    \A fp \in DOMAIN entry.trackedFiles :
        /\ fs[fp].exists
        /\ \/ fs[fp].mtime = entry.trackedFiles[fp].timestamp
           \/ computeFileHash(fs, fp) = entry.trackedFiles[fp].hash

\* isValid without its third check: the outputs are not looked at.
isValidIgnoringOutputs(entry, context) ==
    upstreamSignaturesMatch(entry, context) /\ trackedFilesUnchanged(entry)

\* isValid, were a tracked file that is missing passed over.
isValidSkippingMissing(entry, context) ==
    /\ upstreamSignaturesMatch(entry, context)
    /\ \A fp \in DOMAIN entry.trackedFiles :
          fs[fp].exists =>
              \/ fs[fp].mtime = entry.trackedFiles[fp].timestamp
              \/ computeFileHash(fs, fp) = entry.trackedFiles[fp].hash
    /\ \A op \in probedPaths(entry.outputsByKey.kind, entry.outputsByKey.values) :
           op \in Paths /\ fs[op].exists

\* isValid without its first check: the upstream signatures are not looked at.
isValidIgnoringUpstream(entry, context) ==
    /\ trackedFilesUnchanged(entry)
    /\ \A op \in probedPaths(entry.outputsByKey.kind, entry.outputsByKey.values) :
           op \in Paths /\ fs[op].exists

\* isValid (l.497-564).
isValid(entry, context) ==
    \* 1. upstream output signatures (l.505-528)
    /\ (entry.upstreamOutputSignatures.def /\ context.def) =>
          \A nodeName \in DOMAIN entry.upstreamOutputSignatures.v :
              LET upstreamInfo == entry.upstreamOutputSignatures.v[nodeName]
                  current == resolveInput(fs, nodeOutputs,
                                 from(nodeName, upstreamInfo.outputKey, upstreamInfo.glob))
              IN  /\ current.ok
                  /\ computeOutputSignature(current.paths) = upstreamInfo.signature
    \* 2. tracked files: mtime, then content hash (l.531-550)
    /\ \A fp \in DOMAIN entry.trackedFiles :
          /\ fs[fp].exists
          /\ \/ fs[fp].mtime = entry.trackedFiles[fp].timestamp
             \/ computeFileHash(fs, fp) = entry.trackedFiles[fp].hash
    \* 3. outputs exist (l.553-561)
    /\ \A op \in probedPaths(entry.outputsByKey.kind, entry.outputsByKey.values) :
           op \in Paths /\ fs[op].exists

\* The output paths isValid probes (l.553-555), in the order of the loops.
probedInOrder(kind, values) ==
    IF kind = "array-of-strings"
    THEN concat([i \in 1..Len(values) |-> [j \in 1..Len(values[i]) |-> <<values[i][j]>>]])
    ELSE concat(values)

\* Every check isValid would make on the entry were none to fail, in the
\* order of the code: per upstream node the resolution and comparison of
\* signatures (l.505-528), per tracked file the stat and, when the mtime
\* differs, the hash (l.531-550), per output path the access (l.553-561).
allChecks(entry, context) ==
    LET upstream == IF entry.upstreamOutputSignatures.def /\ context.def
                    THEN SetToSeq(DOMAIN entry.upstreamOutputSignatures.v) ELSE <<>>
        tracked == SetToSeq(DOMAIN entry.trackedFiles)
        outputs == probedInOrder(entry.outputsByKey.kind, entry.outputsByKey.values)
        upstreamCheck(nodeName) ==
            LET upstreamInfo == entry.upstreamOutputSignatures.v[nodeName]
                current == resolveInput(fs, nodeOutputs,
                               from(nodeName, upstreamInfo.outputKey, upstreamInfo.glob))
            IN  [check |-> "upstream", subject |-> <<nodeName>>,
                 passed |-> /\ current.ok
                            /\ computeOutputSignature(current.paths) = upstreamInfo.signature]
        trackedChecks(fp) ==
            <<[check |-> "stat", subject |-> fp, passed |-> fs[fp].exists]>>
            \o (IF fs[fp].exists /\ fs[fp].mtime # entry.trackedFiles[fp].timestamp
                THEN <<[check |-> "hash", subject |-> fp,
                        passed |-> computeFileHash(fs, fp) = entry.trackedFiles[fp].hash]>>
                ELSE <<>>)
    IN  [i \in 1..Len(upstream) |-> upstreamCheck(upstream[i])]
        \o concat([i \in 1..Len(tracked) |-> trackedChecks(tracked[i])])
        \o [i \in 1..Len(outputs) |->
               [check |-> "access", subject |-> outputs[i],
                passed |-> outputs[i] \in Paths /\ fs[outputs[i]].exists]]

\* isValid going through all its checks whatever their outcome.
isValidChecksExhaustive(entry, context) ==
    [checks |-> allChecks(entry, context),
     result |-> \A i \in 1..Len(allChecks(entry, context)) : allChecks(entry, context)[i].passed]

\* The checks isValid makes and what it returns: each return false
\* (l.519, l.524, l.541, l.546, l.557) leaves at the check that failed;
\* return true (l.563) is reached past the last one.
isValidChecks(entry, context) ==
    LET all == allChecks(entry, context)
        failed == {i \in 1..Len(all) : ~all[i].passed}
    IN  IF failed = {} THEN [checks |-> all, result |-> TRUE]
        ELSE [checks |-> SubSeq(all, 1, CHOOSE i \in failed : \A j \in failed : i <= j),
              result |-> FALSE]

\* isValid throws instead of returning: Object.entries(entry.trackedFiles)
\* (l.531) of an entry without trackedFiles is a TypeError, and so is
\* Object.values(entry.outputsByKey) (l.553) of an entry without outputsByKey
\* once the checks before it have passed.  Neither is inside a try block.
isValidThrows(entry, context) ==
    \/ "trackedFiles" \notin DOMAIN entry /\ upstreamSignaturesMatch(entry, context)
    \/ /\ "trackedFiles" \in DOMAIN entry
       /\ "outputsByKey" \notin DOMAIN entry
       /\ upstreamSignaturesMatch(entry, context)
       /\ trackedFilesUnchanged(entry)

\* ------------------------------------------------ the cache wrapper ----

\* The processing config of a node without its fileRef entries (l.856-862),
\* an object as the set of its <<key, value>> pairs: the stylesheet when it
\* is a from() reference, and stylesheetParams and initialMode of the
\* nodes that have them.
processingConfig(node) ==
    (IF inputIsNodeOutputReference(node.config)
     THEN {<<"stylesheet", {<<k, node.config[k]>> : k \in DOMAIN node.config}>>} ELSE {})
    \cup (IF "stylesheetParams" \in DOMAIN node
          THEN {<<"stylesheetParams", node.stylesheetParams>>,
                <<"initialMode", node.initialMode>>}
          ELSE {})

\* JSON.stringify(processingConfig, Object.keys(processingConfig).sort())
\* (l.877): an array as the replacer is the list of the property names to
\* write, at every depth.  A property of a nested object is written only
\* if its name is one of the top-level keys.
stringify(object) ==
    LET keys == {kv[1] : kv \in object}
    IN  {<<kv[1], IF kv[1] = "initialMode" THEN kv[2]
                  ELSE {inner \in kv[2] : inner[1] \in keys}>> : kv \in object}

\* getContentSignature (l.851-882): the class name and a digest of the
\* fileRef paths, the stringified rest of the processing config and the
\* items.
getContentSignature(node) ==
    LET fileRefs == IF node.config.type = "file" THEN <<node.config.path>> ELSE <<>>
        configString == stringify(processingConfig(node))
        itemsSignature ==
            IF node.items.type = "glob" THEN <<"items:", node.items.glob>>
            ELSE IF node.items.type = "array"
                 THEN <<"items:[", [i \in 1..Len(node.items.elements) |->
                                      IF node.items.elements[i].type = "glob"
                                      THEN node.items.elements[i].glob
                                      ELSE <<"[object Object]">>]>>
            ELSE IF inputIsNodeOutputReference(node.items)
                 THEN <<"items:ref", node.items.node, node.items.name>>
                 ELSE <<>>
    IN  [class |-> node.class,
         digest |-> [sha256 |-> <<fileRefs, configString, itemsSignature>>]]

\* processConfigValue over the values of the processing config (l.895-914).
configDependencyPaths(files, stored, node) ==
    IF node.config.type = "file" THEN Returned(<<node.config.path>>)
    ELSE IF inputIsNodeOutputReference(node.config)
         THEN resolveInput(files, stored, node.config)
         ELSE Returned(<<>>)

\* getCacheKey and getOutputPath as the nodes pass them to withCache.
getCacheKey(node, item) == item
getOutputPath(node, item) == node.outputFilenameMapping[item]

\* performWork of the nodes: the output file is written from the item and,
\* for a node with a stylesheet, the stylesheet: the file of a fileRef, the
\* first path a reference resolves to.
performWork(files, now, node, item, outputPath) ==
    [files EXCEPT ![outputPath] =
        File(files[item].content
               \o (IF node.config.type = "file" THEN files[node.config.path].content
                   ELSE IF inputIsNodeOutputReference(node.config)
                        THEN files[wc.v.configDependencyPaths[1]].content
                        ELSE <<>>),
             now)]

\* The node whose run is under way.
currentNode == getNodeData(order[idx])

\* What withCache did for an item, for the record.
Event(kind, item) == [run |-> run, node |-> order[idx], item |-> item, kind |-> kind]

\* The run of a node threw e: Pipeline.run's catch block takes over.
nodeRunThrows(e) ==
    /\ raised' = Append(raised, e)
    /\ catchNodeError(e)
    /\ UNCHANGED <<calls, gNodes, gData, gOut, hookCalls, order, started>>

\* The node's run up to the loop of withCache: the items are resolved by
\* the node, the signature and the config dependencies computed, stale
\* entries cleaned (l.892-917).
WithCacheBegin ==
    /\ pc = "in-node"
    /\ ~wc.def
    /\ LET node == currentNode
           items == resolveInput(fs, nodeOutputs, node.items)
           deps == configDependencyPaths(fs, nodeOutputs, node)
           contentSignature == getContentSignature(node)
           cacheKeys == [i \in 1..Len(items.paths) |-> getCacheKey(node, items.paths[i])]
       IN  IF items.ok /\ deps.ok
           THEN /\ wc' = Some([items |-> items.paths, cacheKeys |-> cacheKeys,
                               contentSignature |-> contentSignature,
                               configDependencyPaths |-> deps.paths,
                               i |-> 1, results |-> <<>>])
                /\ cache' = cleanExcept(cache, contentSignature, cacheKeys)
                /\ resolved' = [resolved EXCEPT ![run][node.name] = items.paths]
                /\ UNCHANGED schedVars
           ELSE /\ nodeRunThrows(IF items.ok THEN deps.error ELSE items.error)
                /\ UNCHANGED <<wc, cache, resolved>>
    /\ UNCHANGED <<fs, clock, run, runStartedAt, envChanges, history, call, outputConfig>>

\* The loop of withCache stands at an item.
AtItem == pc = "in-node" /\ wc.def /\ wc.v.i <= Len(wc.v.items)

\* l.925-926 for the item the loop stands at: the entry read and validated.
\* isValid is called without a context.
cachedEntry == getCache(cache, wc.v.contentSignature, wc.v.cacheKeys[wc.v.i])
validationThrows == cachedEntry.def /\ isValidThrows(cachedEntry.v, Undefined)
cacheHit == cachedEntry.def /\ ~validationThrows /\ isValid(cachedEntry.v, Undefined)
cacheMiss == ~validationThrows /\ ~cacheHit

\* l.926: isValid throws on the entry read; withCache has no handler.
WithCacheValidationThrows ==
    /\ AtItem
    /\ validationThrows
    /\ history' = history \cup {Event("validation-error", wc.v.items[wc.v.i])}
    /\ nodeRunThrows("type-error")
    /\ UNCHANGED <<fs, cache, clock, run, runStartedAt, envChanges, wc, resolved, call, outputConfig>>

\* The hit branch, were it to store the entry again before it fails.
WithCacheHitStoring ==
    /\ AtItem
    /\ cacheHit
    /\ cache' = setCache(cache, wc.v.contentSignature, wc.v.cacheKeys[wc.v.i],
                         [cachedEntry.v EXCEPT !.timestamp = clock])
    /\ history' = history \cup {Event("hit", wc.v.items[wc.v.i])}
    /\ nodeRunThrows("type-error")
    /\ UNCHANGED <<fs, clock, run, runStartedAt, envChanges, wc, resolved, call, outputConfig>>

\* l.926-934: the entry is valid.  cached.outputPaths is read; a CacheEntry
\* (l.372-426) has no such field, so cached.outputPaths[0] is a TypeError.
WithCacheHit ==
    /\ AtItem
    /\ cacheHit
    /\ history' = history \cup {Event("hit", wc.v.items[wc.v.i])}
    /\ nodeRunThrows("type-error")
    /\ UNCHANGED <<fs, cache, clock, run, runStartedAt, envChanges, wc, resolved, call, outputConfig>>

\* The cache after performWork, were its entry stored whether or not the
\* work threw.
storeWorkResultAlways(store, contentSignature, cacheKey, entry, threw) ==
    setCache(store, contentSignature, cacheKey, entry)

\* l.936-957: an error of performWork leaves the loop before
\* buildCacheEntry and setCache; otherwise the entry is stored at once.
storeWorkResult(store, contentSignature, cacheKey, entry, threw) ==
    IF threw THEN store ELSE setCache(store, contentSignature, cacheKey, entry)

\* The entry withCache would build, were the config dependency paths not
\* handed to buildCacheEntry.
entryForWithoutConfigDependencies(files, item, outputPath, cacheKey, discoveredDependencies) ==
    buildCacheEntry(files, clock,
                    <<item>>, ArrayOfStrings(<<outputPath>>), cacheKey,
                    discoveredDependencies, Undefined,
                    Undefined, Undefined, Undefined)

\* The entry withCache builds for the item (l.950-956).  The five arguments
\* land on the first five parameters of buildCacheEntry: the array of
\* output paths on outputsByKey, the cache key on outputBaseDir, the
\* discovered dependencies on itemKey, the config dependency paths on
\* discoveredDependencies; the last three parameters are undefined.
entryFor(files, item, outputPath, cacheKey, discoveredDependencies) ==
    buildCacheEntry(files, clock,
                    <<item>>, ArrayOfStrings(<<outputPath>>), cacheKey,
                    discoveredDependencies, Some(wc.v.configDependencyPaths),
                    Undefined, Undefined, Undefined)

\* The miss branch, were the result put in front of the list.
WithCacheWorkPrepending ==
    /\ AtItem
    /\ cacheMiss
    /\ LET item == wc.v.items[wc.v.i]
           cacheKey == wc.v.cacheKeys[wc.v.i]
           outputPath == getOutputPath(currentNode, item)
           written == performWork(fs, clock, currentNode, item, outputPath)
       IN  /\ fs' = written
           /\ cache' = storeWorkResult(cache, wc.v.contentSignature, cacheKey,
                          entryFor(written, item, outputPath, cacheKey, Undefined), FALSE)
           /\ wc' = Some([wc.v EXCEPT
                            !.i = @ + 1,
                            !.results = <<[item |-> item, output |-> outputPath,
                                           cached |-> FALSE]>> \o @])
           /\ history' = history \cup {Event("work", item)}
    /\ UNCHANGED schedVars
    /\ UNCHANGED <<clock, run, runStartedAt, envChanges, resolved, call, outputConfig>>

\* l.936-959: no valid entry; performWork returns and the entry is stored.
WithCacheWork ==
    /\ AtItem
    /\ cacheMiss
    /\ LET item == wc.v.items[wc.v.i]
           cacheKey == wc.v.cacheKeys[wc.v.i]
           outputPath == getOutputPath(currentNode, item)
           written == performWork(fs, clock, currentNode, item, outputPath)
       IN  /\ fs' = written
           /\ cache' = storeWorkResult(cache, wc.v.contentSignature, cacheKey,
                          entryFor(written, item, outputPath, cacheKey, Undefined), FALSE)
           /\ wc' = Some([wc.v EXCEPT
                            !.i = @ + 1,
                            !.results = Append(@, [item |-> item, output |-> outputPath,
                                                   cached |-> FALSE])])
           /\ history' = history \cup {Event("work", item)}
    /\ UNCHANGED schedVars
    /\ UNCHANGED <<clock, run, runStartedAt, envChanges, resolved, call, outputConfig>>

\* l.936: no valid entry; performWork throws.
WithCacheWorkThrows ==
    /\ AtItem
    /\ cacheMiss
    /\ LET item == wc.v.items[wc.v.i]
           cacheKey == wc.v.cacheKeys[wc.v.i]
           outputPath == getOutputPath(currentNode, item)
       IN  /\ cache' = storeWorkResult(cache, wc.v.contentSignature, cacheKey,
                          entryFor(fs, item, outputPath, cacheKey, Undefined), TRUE)
           /\ history' = history \cup {Event("throw", item)}
    /\ nodeRunThrows("work-error")
    /\ UNCHANGED <<fs, clock, run, runStartedAt, envChanges, wc, resolved, call, outputConfig>>

\* l.936-957: performWork returns; fs.writeFile of setCache (l.478-482)
\* fails after part of the JSON text is written (the disk is full), and
\* the error leaves withCache.
WithCacheWriteFails ==
    /\ AtItem
    /\ cacheMiss
    /\ envChanges < MaxEnvChanges
    /\ envChanges' = envChanges + 1
    /\ LET item == wc.v.items[wc.v.i]
           outputPath == getOutputPath(currentNode, item)
       IN  /\ fs' = performWork(fs, clock, currentNode, item, outputPath)
           /\ cache' = setCache(cache, wc.v.contentSignature, wc.v.cacheKeys[wc.v.i],
                                PartialFile)
           /\ history' = history \cup {Event("write-error", item)}
    /\ nodeRunThrows("write-error")
    /\ UNCHANGED <<clock, run, runStartedAt, wc, resolved, call, outputConfig>>

\* withCache returns (l.961) and so does the node's run, with one output
\* record per item; Pipeline.run stores the list (l.1216).
WithCacheEnd ==
    /\ pc = "in-node"
    /\ wc.def
    /\ wc.v.i > Len(wc.v.items)
    /\ nodeOutputs' = [nodeOutputs EXCEPT ![order[idx]] =
                          Some([j \in 1..Len(wc.v.results) |->
                                   ("transformed" :> <<wc.v.results[j].output>>)
                                   @@ ("result-documents" :> <<>>)])]
    /\ idx' = idx + 1
    /\ pc' = afterNode
    /\ wc' = Undefined
    /\ history' = history \cup {Event("end", <<>>)}
    /\ UNCHANGED <<calls, gNodes, gData, gOut, hookCalls, order, started, raised, err>>
    /\ UNCHANGED <<fs, cache, clock, run, runStartedAt, envChanges, resolved, call, outputConfig>>

\* ------------------------------------ runs of the build script ----------

\* A Pipeline as the build script sets it up: constructed (l.983-989) and
\* the script's nodes added.
ScriptGraphNodes == <<"b", "a">>
ScriptGraphData == [n \in Names |-> IF n = "b" THEN 1 ELSE IF n = "a" THEN 2 ELSE 0]
scriptGraphNodes(config) ==
    IF config \in {"flat", "overlap", "shared"}
    THEN [i \in 1..Len(scriptNodes(config)) |-> scriptNodes(config)[i].name]
    ELSE ScriptGraphNodes
scriptGraphData(config) ==
    IF config \in {"flat", "overlap", "shared"}
    THEN [n \in Names |->
            IF \E i \in 1..Len(scriptNodes(config)) : scriptNodes(config)[i].name = n
            THEN CHOOSE i \in 1..Len(scriptNodes(config)) : scriptNodes(config)[i].name = n
            ELSE 0]
    ELSE ScriptGraphData

ScriptPipeline ==
    /\ calls = ScriptNodes
    /\ gNodes = ScriptGraphNodes
    /\ gData = ScriptGraphData
    /\ gOut = [n \in Names |-> <<>>]
    /\ hookCalls = <<>>
    /\ pc = "building"
    /\ order = <<>>
    /\ idx = 1
    /\ started = <<>>
    /\ nodeOutputs = [n \in Names |-> Undefined]
    /\ raised = <<>>
    /\ err = None

CacheSpecInit == ScriptPipeline /\ CacheInit

\* The previous execution of the script has ended.
BetweenRuns == pc \in {"done", "failed"} /\ run < MaxRuns

\* The script is executed again: a new Pipeline on the same working
\* directory and cache directory.
NewRun ==
    /\ BetweenRuns
    /\ calls' = scriptNodes(outputConfig)
    /\ gNodes' = scriptGraphNodes(outputConfig)
    /\ gData' = scriptGraphData(outputConfig)
    /\ gOut' = [n \in Names |-> <<>>]
    /\ hookCalls' = <<>>
    /\ pc' = "building"
    /\ order' = <<>>
    /\ idx' = 1
    /\ started' = <<>>
    /\ nodeOutputs' = [n \in Names |-> Undefined]
    /\ raised' = <<>>
    /\ err' = None
    /\ run' = run + 1
    /\ clock' = clock + 1
    /\ runStartedAt' = clock + 1
    /\ wc' = Undefined
    /\ UNCHANGED <<fs, cache, envChanges, resolved, history, call, outputConfig>>

\* The files the author changes between runs.
ChangeableFiles == Range(SourceFiles) \cup {StylesheetFile} \cup OutputFiles

\* The author's change to the working directory takes place.
envChange(files) ==
    /\ fs' = files
    /\ envChanges' = envChanges + 1
    /\ clock' = clock + 1
    /\ UNCHANGED schedVars
    /\ UNCHANGED <<cache, run, runStartedAt, wc, resolved, history, call, outputConfig>>

CanChange(path) == BetweenRuns /\ envChanges < MaxEnvChanges /\ fs[path].exists

\* A file's content is replaced; its mtime moves, or is kept (a copy that
\* preserves times, a write within the clock's resolution).
EditFile ==
    \E path \in ChangeableFiles, keepMtime \in BOOLEAN :
        /\ CanChange(path)
        /\ envChange([fs EXCEPT ![path] =
                        File(Append(@.content, 1),
                             IF keepMtime THEN @.mtime ELSE clock + 1)])

\* A file's mtime moves, its content stays.
TouchFile ==
    \E path \in ChangeableFiles :
        /\ CanChange(path)
        /\ envChange([fs EXCEPT ![path] = File(@.content, clock + 1)])

\* A cache file is left with an entry that parses but lacks a field: the
\* work of a hand edit or of another version of the tool.
DamageEntry ==
    \E cp \in DOMAIN cache, field \in {"trackedFiles", "outputsByKey"} :
        /\ BetweenRuns
        /\ envChanges < MaxEnvChanges
        /\ hasFields(cache[cp])
        /\ cache' = [cache EXCEPT ![cp] = [f \in DOMAIN @ \ {field} |-> @[f]]]
        /\ envChanges' = envChanges + 1
        /\ UNCHANGED schedVars
        /\ UNCHANGED <<fs, clock, run, runStartedAt, wc, resolved, history, call, outputConfig>>

\* The author edits the outputConfig of node b in the build script.
ChangeOutputConfig ==
    /\ BetweenRuns
    /\ envChanges < MaxEnvChanges
    /\ outputConfig' = IF outputConfig = "default" THEN "swapped" ELSE "default"
    /\ envChanges' = envChanges + 1
    /\ UNCHANGED schedVars
    /\ UNCHANGED <<fs, cache, clock, run, runStartedAt, wc, resolved, history, call>>

\* A file is removed.
DeleteFile ==
    \E path \in ChangeableFiles :
        /\ CanChange(path)
        /\ envChange([fs EXCEPT ![path] = NoFile])

CacheNext ==
    \/ RunStart \/ NodeStart
    \/ WithCacheBegin \/ WithCacheValidationThrows \/ WithCacheHit
    \/ WithCacheWork \/ WithCacheWorkThrows \/ WithCacheWriteFails \/ WithCacheEnd
    \/ NewRun \/ EditFile \/ TouchFile \/ DeleteFile \/ DamageEntry
    \/ ChangeOutputConfig

CacheSpec == CacheSpecInit /\ [][CacheNext]_vars

\* -------------------------- direct calls of isValid and resolveInput ----

\* How many output records a node's stored output list holds at most.
MaxOutputs == 2

\* The output records a node's run may return: a path under the key
\* "transformed", or no such key.
OutputRecords ==
    {("transformed" :> <<p>>) @@ ("result-documents" :> <<>>) : p \in ReportedPaths}
    \cup {[k \in {"result-documents"} |-> <<>>]}

\* What nodeOutputs may hold for a node: nothing, or a list of records.
StoredOutputs ==
    {Undefined} \cup {Some(l) : l \in UNION {[1..n -> OutputRecords] : n \in 0..MaxOutputs}}

\* The working directories of the calls: the sources and the stylesheet,
\* and any of the reported paths.
WorkingDirs ==
    {[p \in Paths |-> IF p \in present THEN File(<<0>>, 0) ELSE InitialFs[p]] :
        present \in SUBSET ReportedPaths}

\* The working directory in which the entries of the calls were built:
\* every reported path is there; against the working directories of the
\* calls o/x has another mtime and b/n/x another mtime and content.
BuiltIn ==
    [p \in Paths |->
        IF p = <<"o", "/", "x">> THEN File(<<0>>, 1)
        ELSE IF p = <<"b", "/", "n", "/", "x">> THEN File(<<1>>, 1)
        ELSE IF p \in ReportedPaths THEN File(<<0>>, 0) ELSE InitialFs[p]]

\* The upstream output signatures an entry may record: none, or the one of
\* node a's "transformed" paths when these were bb/x alone.
UpstreamSignatures ==
    {Undefined,
     Some([n \in {"a"} |->
             [outputKey |-> "transformed", glob |-> Undefined,
              signature |-> computeOutputSignature(<< <<"b", "b", "/", "x">> >>)]])}

\* The glob patterns of the calls.
Globs == {<<"x">>, <<"*", "/", "x">>, <<"b", "b", "/", "*">>, <<"o", "/", "*">>}

\* The elements of the arrays resolveInput is called with: two globs that
\* overlap, and a reference.
ArrayElements ==
    {globInput(<<"i", "/", "*">>), globInput(<<"i", "/", "s">>),
     from("a", "transformed", Undefined)}

\* The inputs resolveInput is called with: references to node a's outputs
\* with and without a glob, and glob strings.
Inputs ==
    {from("a", name, g) : name \in {"transformed", "result-documents"},
                          g \in {Undefined} \cup {Some(x) : x \in Globs}}
    \cup {globInput(x) : x \in Globs \cup {<<"i", "/", "*">>}}
    \cup {arrayInput(elements) :
            elements \in {<<>>} \cup (ArrayElements \X ArrayElements)}
    \cup {NoItems}

\* What an entry of the calls tracks: nothing, an item, a discovered
\* dependency or a fileRef with the hash computed for it.
TrackedChoices ==
    {[itemPaths |-> <<>>, discoveredDependencies |-> Undefined,
      fileRefPaths |-> Undefined, precomputedHashes |-> Undefined]}
    \cup {[itemPaths |-> <<p>>, discoveredDependencies |-> Undefined,
           fileRefPaths |-> Undefined, precomputedHashes |-> Undefined] :
              p \in {SourceFiles[1], <<"o", "/", "x">>, <<"b", "/", "n", "/", "x">>}}
    \cup {[itemPaths |-> <<>>, discoveredDependencies |-> Some(<< <<"o", "/", "x">> >>),
           fileRefPaths |-> Undefined, precomputedHashes |-> Undefined],
          [itemPaths |-> <<>>, discoveredDependencies |-> Undefined,
           fileRefPaths |-> Some(<< <<"o", "/", "x">> >>),
           precomputedHashes |->
               Some([fp \in {<<"o", "/", "x">>} |->
                        [hash |-> computeFileHash(BuiltIn, fp), timestamp |-> BuiltIn[fp].mtime]])]}

\* Cache entries as buildCacheEntry makes them from a CacheEntry's
\* outputsByKey (l.372-426: a record of arrays of paths), with and without
\* a tracked file and upstream signatures.
Entries ==
    {buildCacheEntry(BuiltIn, 0, tracked.itemPaths, ObjectOfArrays(<<t, r>>), <<>>, <<"k">>,
                     tracked.discoveredDependencies, tracked.fileRefPaths, upstream,
                     tracked.precomputedHashes) :
        tracked \in TrackedChoices,
        t \in {<<>>} \cup {<<p>> : p \in ReportedPaths},
        r \in {<<>>, << <<"o", "/", "x">> >>},
        upstream \in UpstreamSignatures}

\* The cache directory of the calls: an earlier run left an entry.
StoreBefore ==
    setCache(<<>>, getContentSignature(NodeA), SourceFiles[1],
             buildCacheEntry(InitialFs, 0, <<SourceFiles[1]>>, ArrayOfStrings(<<OutputOfA[SourceFiles[1]]>>),
                             SourceFiles[1], Undefined, Some(<<StylesheetFile>>),
                             Undefined, Undefined, Undefined))

CallInit ==
    /\ calls = ScriptNodes
    /\ gNodes = ScriptGraphNodes
    /\ gData = ScriptGraphData
    /\ gOut = [n \in Names |-> <<>>]
    /\ hookCalls = <<>>
    /\ pc = "building"
    /\ order = <<>>
    /\ idx = 1
    /\ started = <<>>
    /\ \E stored \in StoredOutputs :
          nodeOutputs = [n \in Names |-> IF n = "a" THEN stored ELSE Undefined]
    /\ raised = <<>>
    /\ err = None
    /\ fs \in WorkingDirs
    /\ cache = StoreBefore
    /\ clock = 1
    /\ run = 1
    /\ runStartedAt = 1
    /\ envChanges = 0
    /\ wc = Undefined
    /\ resolved = [r \in 1..MaxRuns |-> [n \in Names |-> <<>>]]
    /\ history = {}
    /\ outputConfig = "default"
    /\ call = NoCall

\* isValid is called on an entry, without a context as at l.926 or with
\* one that resolves inputs.
CallIsValid ==
    /\ call = NoCall
    /\ \E entry \in Entries, context \in {Undefined, Some("context")} :
          call' = [op |-> "isValid", entry |-> entry, context |-> context,
                   result |-> isValid(entry, context),
                   checks |-> isValidChecks(entry, context)]
    /\ UNCHANGED <<schedVars, cacheVars>>

\* resolveInput, were it to clear the cache directory of node a.
CallResolveInputCleaning ==
    /\ call = NoCall
    /\ \E input \in Inputs :
          call' = [op |-> "resolveInput", input |-> input,
                   result |-> resolveInput(fs, nodeOutputs, input)]
    /\ cache' = cleanExcept(cache, getContentSignature(NodeA), <<>>)
    /\ UNCHANGED schedVars
    /\ UNCHANGED <<fs, clock, run, runStartedAt, envChanges, wc, resolved, history, outputConfig>>

\* context.resolveInput is called on an input.
CallResolveInput ==
    /\ call = NoCall
    /\ \E input \in Inputs :
          call' = [op |-> "resolveInput", input |-> input,
                   result |-> resolveInput(fs, nodeOutputs, input)]
    /\ UNCHANGED <<schedVars, cacheVars>>

CallNext == CallIsValid \/ CallResolveInput

CallSpec == CallInit /\ [][CallNext]_vars

\* ------------------- runs of the script on any set of source files ------

\* The working directory before the first run, with any of the source
\* files missing.
SourceDirs ==
    {[p \in Paths |-> IF p \in missing THEN NoFile ELSE InitialFs[p]] :
        missing \in SUBSET Range(SourceFiles)}

RunInit ==
    /\ ScriptPipeline
    /\ fs \in SourceDirs
    /\ cache = <<>>
    /\ clock = 1
    /\ run = 1
    /\ runStartedAt = 1
    /\ envChanges = 0
    /\ wc = Undefined
    /\ resolved = [r \in 1..MaxRuns |-> [n \in Names |-> <<>>]]
    /\ history = {}
    /\ outputConfig = "default"
    /\ call = NoCall

\* The script is run, and run again, with nothing changed in between.
RunNext ==
    \/ RunStart \/ NodeStart
    \/ WithCacheBegin \/ WithCacheHit
    \/ WithCacheWork \/ WithCacheWorkThrows \/ WithCacheWriteFails \/ WithCacheEnd
    \/ NewRun

RunSpec == RunInit /\ [][RunNext]_vars

\* ------------- runs of the script whose nodes write to u, v and w ------

\* The first execution of a script.
ScriptInit(config) ==
    /\ calls = scriptNodes(config)
    /\ gNodes = scriptGraphNodes(config)
    /\ gData = scriptGraphData(config)
    /\ gOut = [n \in Names |-> <<>>]
    /\ hookCalls = <<>>
    /\ pc = "building"
    /\ order = <<>>
    /\ idx = 1
    /\ started = <<>>
    /\ nodeOutputs = [n \in Names |-> Undefined]
    /\ raised = <<>>
    /\ err = None
    /\ fs = InitialFs
    /\ cache = <<>>
    /\ clock = 1
    /\ run = 1
    /\ runStartedAt = 1
    /\ envChanges = 0
    /\ wc = Undefined
    /\ resolved = [r \in 1..MaxRuns |-> [n \in Names |-> <<>>]]
    /\ history = {}
    /\ outputConfig = config
    /\ call = NoCall

ConfigInit == ScriptInit("flat")

ConfigNext ==
    \/ RunStart \/ NodeStart
    \/ WithCacheBegin \/ WithCacheHit
    \/ WithCacheWork \/ WithCacheWorkThrows \/ WithCacheEnd
    \/ NewRun \/ EditFile \/ TouchFile

ConfigSpec == ConfigInit /\ [][ConfigNext]_vars

\* Runs of the scripts whose items or nodes share cache keys or a content
\* signature.
SharingInit == \E config \in {"overlap", "shared"} : ScriptInit(config)

SharingSpec == SharingInit /\ [][ConfigNext]_vars

\* ------------------------------------------ calls of makeItemKey --------

\* The characters of the model's paths in the order of their UTF-16 code
\* units, by which Array.prototype.sort compares strings.
CodeUnits ==
    <<"*", "-", ".", "/">> \o <<"0", "1", "2", "3", "4", "5", "6", "7", "8", "9">>
    \o UpperCase \o <<"_">> \o LowerCase \o <<"|">>
codeUnit(c) == CHOOSE i \in DOMAIN CodeUnits : CodeUnits[i] = c

\* a sorts before b or is b.
RECURSIVE sortsBefore(_, _)
sortsBefore(a, b) ==
    IF a = <<>> THEN TRUE
    ELSE IF b = <<>> THEN FALSE
    ELSE IF Head(a) = Head(b) THEN sortsBefore(Tail(a), Tail(b))
    ELSE codeUnit(Head(a)) < codeUnit(Head(b))

\* paths.sort() (l.657).
RECURSIVE sort(_)
sort(paths) ==
    IF paths = <<>> THEN <<>>
    ELSE LET rest == sort(Tail(paths))
             before == SelectSeq(rest, LAMBDA q : ~sortsBefore(Head(paths), q))
             after == SelectSeq(rest, LAMBDA q : sortsBefore(Head(paths), q))
         IN  before \o <<Head(paths)>> \o after

\* Array.prototype.join.
RECURSIVE join(_, _)
join(strings, separator) ==
    IF strings = <<>> THEN <<>>
    ELSE IF Len(strings) = 1 THEN Head(strings)
    ELSE Head(strings) \o separator \o join(Tail(strings), separator)

\* path.basename: what follows the last "/".
RECURSIVE basename(_)
basename(path) ==
    IF \E i \in 1..Len(path) : path[i] = "/" THEN basename(Tail(path)) ELSE path

\* l.663-666: every character outside [a-zA-Z0-9] becomes "-", runs of "-"
\* collapse, a "-" at either end goes, the rest is lower-cased.
RECURSIVE dashed(_)
dashed(string) ==
    IF string = <<>> THEN <<>>
    ELSE LET c == IF Head(string) \in Range(LowerCase) \cup Range(UpperCase) \cup Digits
                  THEN toLowerCase(Head(string)) ELSE "-"
             rest == dashed(Tail(string))
         IN  IF c = "-" /\ rest # <<>> /\ Head(rest) = "-" THEN rest ELSE <<c>> \o rest

readablePrefix(string) ==
    LET d == dashed(string)
        e == IF d # <<>> /\ Head(d) = "-" THEN Tail(d) ELSE d
    IN  IF e # <<>> /\ e[Len(e)] = "-" THEN SubSeq(e, 1, Len(e) - 1) ELSE e

\* makeItemKey, were the prefix taken from the first path as passed.
makeItemKeyFirstArgument(paths) ==
    [prefix |-> readablePrefix(basename(paths[1])),
     hash |-> [sha256 |-> join(sort(paths), <<"|">>)]]

\* makeItemKey (l.655-671).  sort() orders the argument array in place, so
\* paths[0] at l.661 is the first path in sort order.  The key is the
\* prefix, "-" and the first digits of the hash.
makeItemKey(paths) ==
    LET sorted == sort(paths)
    IN  [prefix |-> readablePrefix(basename(sorted[1])),
         hash |-> [sha256 |-> join(sorted, <<"|">>)]]

\* How many paths makeItemKey is called with at most.
MaxKeyPaths == 3

\* The argument lists of the calls.
KeyPaths == Range(SourceFiles) \cup ReportedPaths
KeyArguments == UNION {[1..n -> KeyPaths] : n \in 1..MaxKeyPaths}

KeyInit ==
    /\ ScriptPipeline
    /\ fs = InitialFs
    /\ cache = <<>>
    /\ clock = 1
    /\ run = 1
    /\ runStartedAt = 1
    /\ envChanges = 0
    /\ wc = Undefined
    /\ resolved = [r \in 1..MaxRuns |-> [n \in Names |-> <<>>]]
    /\ history = {}
    /\ outputConfig = "default"
    /\ \E paths \in KeyArguments : call = [op |-> "arguments", paths |-> paths]

CallMakeItemKey ==
    /\ call.op = "arguments"
    /\ call' = [op |-> "makeItemKey", paths |-> call.paths, result |-> makeItemKey(call.paths)]
    /\ UNCHANGED <<schedVars, cacheVars>>

KeySpec == KeyInit /\ [][CallMakeItemKey]_vars

\* ------------------------------------ calls of the cache store ---------

\* How many entries are stored before the call that is looked at.
MaxStored == 2

\* Keys of items: paths that differ in a character sanitizeKey replaces,
\* and paths of more than 200 characters that differ in their last one.
StoreKeys ==
    LET LongKey(last) == [i \in 1..201 |-> IF i = 201 THEN last ELSE "x"]
    IN  {<<"i", "/", "s">>, <<"i", "-", "s">>, <<"i", "/", "T">>, LongKey("s"), LongKey("T")}

\* Content signatures: of the script's two nodes, and of a node with a's
\* config whose class name differs from a's in the case of its letters.
StoreSignatures ==
    {getContentSignature(NodeA), getContentSignature(NodeB),
     [getContentSignature(NodeA) EXCEPT !.class = <<"S", "E", "F">>]}

StoreInit ==
    /\ ScriptPipeline
    /\ fs = InitialFs
    /\ cache = <<>>
    /\ clock = 1
    /\ run = 1
    /\ runStartedAt = 1
    /\ envChanges = 0
    /\ wc = Undefined
    /\ resolved = [r \in 1..MaxRuns |-> [n \in Names |-> <<>>]]
    /\ history = {}
    /\ outputConfig = "default"
    /\ call = [op |-> "setCache", sets |-> <<>>]

\* setCache is called with an entry built for the key.
CallSetCache ==
    /\ call.op = "setCache"
    /\ Len(call.sets) < MaxStored
    /\ \E sig \in StoreSignatures, key \in StoreKeys :
          LET entry == buildCacheEntry(fs, clock, <<>>, ObjectOfArrays(<<>>), <<>>,
                                       <<sig, key>>, Undefined, Undefined, Undefined, Undefined)
          IN  /\ cache' = setCache(cache, sig, key, entry)
              /\ call' = [call EXCEPT !.sets = Append(@, [sig |-> sig, key |-> key,
                                                            entry |-> entry])]
    /\ clock' = clock + 1
    /\ UNCHANGED schedVars
    /\ UNCHANGED <<fs, run, runStartedAt, envChanges, wc, resolved, history, outputConfig>>

\* getCache is called.
CallGetCache ==
    /\ call.op = "setCache"
    /\ \E sig \in StoreSignatures, key \in StoreKeys :
          call' = [op |-> "getCache", sets |-> call.sets, sig |-> sig, key |-> key,
                   result |-> getCache(cache, sig, key)]
    /\ UNCHANGED <<schedVars, cacheVars>>

\* cleanExcept is called with no key or one.
CallCleanExcept ==
    /\ call.op = "setCache"
    /\ \E sig \in StoreSignatures, keys \in {<<>>} \cup {<<k>> : k \in StoreKeys} :
          /\ cache' = cleanExcept(cache, sig, keys)
          /\ call' = [op |-> "cleanExcept", sets |-> call.sets, sig |-> sig, keys |-> keys,
                      before |-> cache]
    /\ UNCHANGED schedVars
    /\ UNCHANGED <<fs, clock, run, runStartedAt, envChanges, wc, resolved, history, outputConfig>>

\* clear is called, with a signature or without.
CallClear ==
    /\ call.op = "setCache"
    /\ \E sig \in {Undefined} \cup {Some(sg) : sg \in StoreSignatures} :
          /\ cache' = clear(cache, sig)
          /\ call' = [op |-> "clear", sets |-> call.sets, sig |-> sig, before |-> cache]
    /\ UNCHANGED schedVars
    /\ UNCHANGED <<fs, clock, run, runStartedAt, envChanges, wc, resolved, history, outputConfig>>

StoreSpec ==
    StoreInit /\ [][CallSetCache \/ CallGetCache \/ CallCleanExcept \/ CallClear]_vars

\* ----------------------------------- calls of getContentSignature ------

\* stylesheetParams objects: empty, or one parameter; a parameter may bear
\* the name of a top-level key of the config.
ParamObjects == {{}} \cup {{<<k, v>>} : k \in {"p", "initialMode"}, v \in {"1", "2"}}

\* Nodes of one class that differ in their processing config: in the
\* stylesheet, the stylesheetParams, the initialMode.
SigNodes ==
    {[name |-> "a", hook |-> FALSE, explicitDependencies |-> <<>>,
      items |-> globInput(<<"i", "/", "*">>), config |-> config,
      class |-> <<"S", "e", "f">>, outputFilenameMapping |-> OutputOfA,
      stylesheetParams |-> params, initialMode |-> mode] :
        config \in {fileRef(StylesheetFile), NoItems},
        params \in ParamObjects, mode \in {"m", "n"}}

SigInit ==
    /\ ScriptPipeline
    /\ fs = InitialFs
    /\ cache = <<>>
    /\ clock = 1
    /\ run = 1
    /\ runStartedAt = 1
    /\ envChanges = 0
    /\ wc = Undefined
    /\ resolved = [r \in 1..MaxRuns |-> [n \in Names |-> <<>>]]
    /\ history = {}
    /\ outputConfig = "default"
    /\ \E first \in SigNodes, second \in SigNodes :
          call = [op |-> "nodes", first |-> first, second |-> second]

CallGetContentSignature ==
    /\ call.op = "nodes"
    /\ call' = [op |-> "getContentSignature", first |-> call.first, second |-> call.second,
                signatures |-> <<getContentSignature(call.first),
                                 getContentSignature(call.second)>>]
    /\ UNCHANGED <<schedVars, cacheVars>>

SigSpec == SigInit /\ [][CallGetContentSignature]_vars

Next == AddNode \/ RunStart \/ NodeStart \/ NodeReturn \/ NodeThrow

Spec == Init /\ [][Next]_vars

\* ------------------------------------------------------------ claims ----

\* Pipeline.run went past graph construction.
Executing == pc \in {"running", "in-node", "done", "failed"}

\* C1: for every edge N -> D of the graph, D's run has returned and its
\* output list is stored in nodeOutputs in every state in which N's run
\* has been invoked.
C1_DependenciesStoredBeforeRun ==
    \A i \in 1..Len(started) :
        \A d \in Range(gOut[started[i]]) : nodeOutputs[d].def

\* A node with a dependency is running.
C1_Witness == pc = "in-node" /\ gOut[order[idx]] # <<>>

\* C2: every NodeOutputReference in a registered node's items or processing
\* config is an edge of the graph once it is built, and no node's run is
\* invoked before the nodes it references have completed.
C2_EveryReferenceIsAnEdge ==
    /\ Executing =>
         \A n \in Range(gNodes) :
             \A r \in declaredRefs(getNodeData(n)) : r.node \in Range(gOut[n])
    /\ \A i \in 1..Len(started) :
           \A r \in declaredRefs(getNodeData(started[i])) : nodeOutputs[r.node].def

\* The dependencies the registered nodes declare: explicit names and
\* references in items and processing config.
declaredOut ==
    [n \in Names |->
        IF n \in Range(gNodes)
        THEN LET node == getNodeData(n)
             IN  Range(node.explicitDependencies) \cup {r.node : r \in declaredRefs(node)}
        ELSE {}]

RECURSIVE DeclaredReach(_, _)
DeclaredReach(frontier, seen) ==
    LET nxt == UNION {declaredOut[m] : m \in frontier} \ seen
    IN  IF nxt = {} THEN seen ELSE DeclaredReach(nxt, seen \cup nxt)

DeclaredCycle == \E n \in Range(gNodes) : n \in DeclaredReach({n}, {})

\* C3: when the explicit and inferred dependencies of the registered nodes
\* contain a cycle, run fails with a cycle error and no node's run is invoked.
C3_CycleRejected ==
    (DeclaredCycle /\ pc # "building") =>
        (pc = "config-error" /\ err = "cycle" /\ started = <<>>)

\* A registered node names an unregistered node as explicit dependency.
UnknownExplicitDependency ==
    \E n \in Range(gNodes) :
        \E d \in Range(getNodeData(n).explicitDependencies) : ~hasNode(gNodes, d)

\* C4: when a node's explicit dependency list names an unregistered node,
\* run fails with an error before any node's run is invoked.
C4_UnknownDependencyRejected ==
    (UnknownExplicitDependency /\ pc # "building") =>
        (pc = "config-error" /\ err = "unknown-dependency" /\ started = <<>>)

\* run was called on a pipeline with an unknown explicit dependency.
C4_Witness == UnknownExplicitDependency /\ pc = "config-error"

\* The addNode calls whose name an earlier call had registered.
DuplicateCalls ==
    {i \in 1..Len(calls) : \E j \in 1..(i - 1) : calls[j].name = calls[i].name}

\* C5: a second node under a registered name is reported as a configuration
\* error before execution, and its hook is not run as if it were registered.
C5_DuplicateNameRejected ==
    \A i \in DuplicateCalls :
        /\ i \notin Range(hookCalls)
        /\ ~Executing

\* C6: when a node's run raises, Pipeline.run stops at once: it throws that
\* same error, no later node is run, nothing is stored for the failed node,
\* and nothing happens afterwards.
C6_FailureStopsPipeline ==
    /\ [](raised # <<>> =>
            /\ pc = "failed"
            /\ raised = <<err>>
            /\ started = SubSeq(order, 1, idx)
            /\ \A k \in idx..Len(order) : ~nodeOutputs[order[k]].def)
    /\ [][pc = "failed" => UNCHANGED <<started, nodeOutputs, pc, err>>]_vars

\* A node failed while a later node was still to run.
C6_Witness == pc = "failed" /\ idx < Len(order)

\* A node's run threw and Pipeline.run stopped there.
NodeRunFailed == pc = "failed" /\ raised # <<>>

\* The entries in the cache directory of the failed node that its failed
\* run stored.
EntriesOfFailedRun ==
    {cp \in DOMAIN cache :
        /\ cp[1] = getCachePath(getContentSignature(currentNode), <<>>)[1]
        /\ parses(cache[cp])
        /\ cache[cp].timestamp >= runStartedAt}

\* C7 as stated: when a node's run fails, no cache entry that this failed
\* run of the node produced is left in the cache.
C7_FailedRunLeavesNoEntry == NodeRunFailed => EntriesOfFailedRun = {}

\* C7 as amended: when a node's run fails at the k-th item of withCache, the
\* node's output list is not stored and the only entries the failed run
\* leaves in the cache are those of the items 1..k-1 it completed before.
C7_FailedRunKeepsCompletedItemsOnly ==
    NodeRunFailed =>
        /\ ~nodeOutputs[order[idx]].def
        /\ EntriesOfFailedRun =
              IF wc.def
              THEN {getCachePath(wc.v.contentSignature, wc.v.cacheKeys[j]) :
                        j \in 1..(wc.v.i - 1)}
              ELSE {}

\* performWork threw on the second item of a node.
C7_Witness == NodeRunFailed /\ err = "work-error" /\ wc.def /\ wc.v.i = 2

\* The node's run completed in run r.
CompletedIn(r, n) == [run |-> r, node |-> n, item |-> <<>>, kind |-> "end"] \in history

\* C8: when the script is run again with nothing changed since a run in
\* which the node completed, performWork is invoked for none of the node's
\* items and the node's run reports every item as cached.
C8_SecondRunAllCached ==
    /\ \A h \in history :
          (h.run > 1 /\ envChanges = 0 /\ CompletedIn(h.run - 1, h.node))
              => h.kind \in {"hit", "end"}
    /\ (NodeRunFailed /\ run > 1 /\ envChanges = 0) => ~CompletedIn(run - 1, order[idx])

\* C9: when the set of paths an upstream reference resolves to differs from
\* the set of the previous run, no entry of the downstream node is treated
\* as valid.
C9_UpstreamSetChangeInvalidates ==
    \A h \in history :
        (/\ h.kind = "hit"
         /\ h.run > 1
         /\ inputIsNodeOutputReference(getNodeData(h.node).items)
         /\ CompletedIn(h.run - 1, h.node))
            => Range(resolved[h.run][h.node]) = Range(resolved[h.run - 1][h.node])

\* The cache files that hold an entry with the fields of a CacheEntry.
storedEntries == {cp \in DOMAIN cache : parses(cache[cp]) /\ hasFields(cache[cp])}

\* The content of a file the entry tracks is no longer what the entry recorded.
ContentChanged(entry, fp) ==
    fs[fp].exists /\ computeFileHash(fs, fp) # entry.trackedFiles[fp].hash

\* C10 as stated: isValid is false for every stored entry that tracks a file
\* whose content hash differs from the stored one, whatever its origin tag.
C10_ContentChangeInvalidates ==
    \A cp \in storedEntries : \A fp \in DOMAIN cache[cp].trackedFiles :
        ContentChanged(cache[cp], fp) =>
            \A context \in {Undefined, Some("context")} : ~isValid(cache[cp], context)

\* C10 as amended: isValid is false for every stored entry that tracks a
\* file whose content hash differs from the stored one and whose mtime
\* differs from the stored timestamp, whatever its origin tag.
C10_ContentAndMtimeChangeInvalidates ==
    \A cp \in storedEntries : \A fp \in DOMAIN cache[cp].trackedFiles :
        (/\ ContentChanged(cache[cp], fp)
         /\ fs[fp].mtime # cache[cp].trackedFiles[fp].timestamp) =>
            \A context \in {Undefined, Some("context")} : ~isValid(cache[cp], context)

\* A tracked file was edited, its mtime moved, and nothing else speaks
\* against the entry.
C10_Witness ==
    \E cp \in storedEntries : \E fp \in DOMAIN cache[cp].trackedFiles :
        /\ ContentChanged(cache[cp], fp)
        /\ fs[fp].mtime # cache[cp].trackedFiles[fp].timestamp
        /\ isValidIgnoringContent(cache[cp], Undefined)

\* The output paths an entry lists.
listedOutputs(entry) ==
    IF entry.outputsByKey.kind = "array-of-strings"
    THEN Range(entry.outputsByKey.values)
    ELSE UNION {Range(paths) : paths \in Range(entry.outputsByKey.values)}

\* Every file the entry tracks is there with the content the entry
\* recorded, and every output it lists is there.
ContentIntact(entry) ==
    /\ hasFields(entry)
    /\ \A fp \in DOMAIN entry.trackedFiles :
          fs[fp].exists /\ computeFileHash(fs, fp) = entry.trackedFiles[fp].hash
    /\ \A op \in listedOutputs(entry) : op \in Paths /\ fs[op].exists

\* The mtime of a file the entry tracks is not the one the entry recorded.
Touched(entry) ==
    \E fp \in DOMAIN entry.trackedFiles : fs[fp].mtime # entry.trackedFiles[fp].timestamp

\* C11: an entry whose tracked files were only touched (same content, new
\* mtime) is valid; withCache reports its item as cached and leaves the
\* stored entry as it is.
C11_TouchKeepsEntry ==
    /\ [](\A cp \in DOMAIN cache :
            (ContentIntact(cache[cp]) /\ Touched(cache[cp])) => isValid(cache[cp], Undefined))
    /\ [][(AtItem /\ cachedEntry.def /\ ContentIntact(cachedEntry.v) /\ Touched(cachedEntry.v))
            => /\ cache' = cache
               /\ pc' = "in-node"
               /\ wc'.v.results # <<>>
               /\ wc'.v.results[Len(wc'.v.results)].cached]_vars

noPathUnder(stored, name) ==
    \A i \in 1..Len(stored) : name \notin DOMAIN stored[i] \/ stored[i][name] = <<>>

\* C18: resolving a reference to a node that has not run, or that ran and
\* produced no path under the referenced key, raises; nothing is returned.
C18_UnrunOrEmptyUpstreamRaises ==
    (/\ call.op = "resolveInput"
     /\ inputIsNodeOutputReference(call.input)
     /\ \/ ~nodeOutputs[call.input.node].def
        \/ noPathUnder(nodeOutputs[call.input.node].v, call.input.name))
        => /\ ~call.result.ok
           /\ call.result.error = "node-has-not-run-or-no-outputs"

\* A reference to a key under which the node, which ran and returned
\* output records, produced no path was resolved.
C18_Witness ==
    /\ call.op = "resolveInput"
    /\ inputIsNodeOutputReference(call.input)
    /\ nodeOutputs[call.input.node].def
    /\ nodeOutputs[call.input.node].v # <<>>
    /\ noPathUnder(nodeOutputs[call.input.node].v, call.input.name)
    /\ ~call.result.ok

\* The path lies in the build directory.
underBuildDir(outputPath) == startsWith(outputPath, buildDir \o <<"/">>)

\* The path matches the glob of a reference: for a path in the build
\* directory the glob is prefixed by <buildDir>/<any node>/.
matchesGlob(outputPath, pattern) ==
    matchesPattern(IF underBuildDir(outputPath)
                   THEN buildDir \o <<"/", "*", "/">> \o pattern ELSE pattern,
                   outputPath)

\* C19: resolving a reference with a glob returns exactly the upstream
\* paths under the key that match the glob, in upstream order, and raises
\* when none matches.
C19_GlobFilterExact ==
    (/\ call.op = "resolveInput"
     /\ inputIsNodeOutputReference(call.input)
     /\ call.input.glob.def
     /\ nodeOutputs[call.input.node].def
     /\ ~noPathUnder(nodeOutputs[call.input.node].v, call.input.name)
     /\ \A o \in Range(flatMapOutputs(nodeOutputs[call.input.node].v, call.input.name)) :
            fs[o].exists)
        => LET upstream == flatMapOutputs(nodeOutputs[call.input.node].v, call.input.name)
               matching == SelectSeq(upstream, LAMBDA o : matchesGlob(o, call.input.glob.v))
           IN  IF matching = <<>> THEN ~call.result.ok
               ELSE call.result = Returned(matching)

\* The cache paths in the directory of a content signature.
signatureDir(store, contentSignature) ==
    {cp \in DOMAIN store : cp[1] = getCachePath(contentSignature, <<>>)[1]}

C16_CacheFilesComplete == \A cp \in DOMAIN cache : parses(cache[cp])

\* C17: getCache gives null for a file that is missing or does not parse,
\* and an entry that parses but lacks trackedFiles or outputsByKey counts as
\* invalid: withCache performs the work for its item and no error leaves it
\* on account of the entry.
C17_BadEntryIsMiss ==
    /\ [](\A cp \in DOMAIN cache : ~parses(cache[cp]) =>
            \A sig \in {getContentSignature(NodeA), getContentSignature(NodeB)} :
                \A item \in Paths :
                    getCachePath(sig, item) = cp => ~getCache(cache, sig, item).def)
    /\ [][(AtItem /\ cachedEntry.def /\ ~hasFields(cachedEntry.v))
            => /\ pc' \in {"in-node", "failed"}
               /\ pc' = "failed" => err' \in {"work-error", "write-error"}]_vars

\* C13: a change of the outputConfig alone leaves the content signature as
\* it was, and an item whose entry is intact is not worked again: when the
\* entry's output is not where the item's output is expected now, the
\* cached artifact is copied there and that path is reported for the item.
C13_OutputConfigChangeReusesCache ==
    /\ [](wc.def => wc.v.contentSignature
                        \in {getContentSignature(NodeA), getContentSignature(NodeB)})
    /\ [][(/\ AtItem
           /\ cachedEntry.def
           /\ ContentIntact(cachedEntry.v)
           /\ getOutputPath(currentNode, wc.v.items[wc.v.i]) \notin listedOutputs(cachedEntry.v))
            => LET expected == getOutputPath(currentNode, wc.v.items[wc.v.i])
               IN  /\ pc' = "in-node"
                   /\ wc'.v.results # <<>>
                   /\ wc'.v.results[Len(wc'.v.results)].cached
                   /\ wc'.v.results[Len(wc'.v.results)].output = expected
                   /\ fs'[expected].exists
                   /\ \E op \in listedOutputs(cachedEntry.v) :
                          fs'[expected].content = fs[op].content]_vars

\* C15: whatever entries earlier runs left in the cache, a run ends as a
\* run from an empty cache ends: it fails only where that run fails too,
\* by an unresolvable input or an error of the work or of the write.
C15_CacheIsAdvisory ==
    (NodeRunFailed /\ DOMAIN cache \ storedEntries \subseteq {cp \in DOMAIN cache : ~parses(cache[cp])})
        => err \in {"no-files-found-for-pattern", "node-has-not-run-or-no-outputs",
                    "work-error", "write-error"}

\* No file of the working directory matches the pattern.
matchesNothing(pattern) == \A p \in Paths : fs[p].exists => ~matchesPattern(pattern, p)

\* C20: resolving a glob string that matches no file raises "No files found
\* for pattern"; the run of a node whose items glob matches nothing fails,
\* and the pipeline stops there.
C20_EmptyGlobFailsRun ==
    /\ [][(/\ pc = "in-node"
           /\ ~wc.def
           /\ currentNode.items.type = "glob"
           /\ matchesNothing(currentNode.items.glob))
            => /\ pc' = "failed"
               /\ err' = "no-files-found-for-pattern"
               /\ UNCHANGED <<nodeOutputs, started, cache, fs>>]_vars
    /\ [](err = "no-files-found-for-pattern"
            => /\ pc = "failed"
               /\ started = SubSeq(order, 1, idx)
               /\ \A j \in idx..Len(order) : ~nodeOutputs[order[j]].def)

\* The run of node a, whose items glob matched no file, has failed.
C20_Witness ==
    /\ pc = "failed"
    /\ err = "no-files-found-for-pattern"
    /\ order[idx] = "a"
    /\ matchesNothing(getNodeData("a").items.glob)

\* C21: resolveInput never returns an empty list, whatever the input: an
\* empty resolution is an error.
C21_NeverReturnsEmpty ==
    (call.op = "resolveInput" /\ call.result.ok) => call.result.paths # <<>>

\* C22: the list one resolveInput call returns holds no path twice, also
\* for an array whose elements resolve to overlapping sets of files, and
\* the paths of an array's elements come in the order of the elements.
C22_NoDuplicatePaths ==
    (call.op = "resolveInput" /\ call.result.ok) =>
        /\ \A i, j \in 1..Len(call.result.paths) :
              call.result.paths[i] = call.result.paths[j] => i = j
        /\ call.input.type = "array" =>
              call.result.paths =
                  concat([i \in 1..Len(call.input.elements) |->
                             resolveInput(fs, nodeOutputs, call.input.elements[i]).paths])

\* The two argument lists hold the same paths the same number of times.
sameMultiset(ps, qs) ==
    \A p \in KeyPaths :
        Cardinality({i \in 1..Len(ps) : ps[i] = p}) = Cardinality({i \in 1..Len(qs) : qs[i] = p})

\* C23: makeItemKey gives one key, prefix and hash, for every order of the
\* same paths.
C23_ItemKeyIgnoresOrder ==
    call.op = "makeItemKey" =>
        \A qs \in KeyArguments :
            sameMultiset(call.paths, qs) => makeItemKey(qs) = call.result

\* The key of two paths with different base names, passed in descending
\* order, was made.
C23_Witness ==
    /\ call.op = "makeItemKey"
    /\ Len(call.paths) = 2
    /\ ~sortsBefore(call.paths[1], call.paths[2])
    /\ readablePrefix(basename(call.paths[1])) # readablePrefix(basename(call.paths[2]))
    /\ call.result.prefix = readablePrefix(basename(call.paths[2]))

\* C28: the nodes run one after the other: the runs invoked are the first
\* ones of the execution order, every run but the latest has returned and
\* its outputs are stored, and between two runs all of them are.
C28_OneNodeAtATime ==
    /\ started = SubSeq(order, 1, Len(started))
    /\ \A i \in 1..Len(started) :
          (i < Len(started) \/ pc = "running") => nodeOutputs[started[i]].def
    /\ pc = "in-node" => Len(started) = idx /\ ~nodeOutputs[started[idx]].def

\* The run of a second node is in progress.
C28_Witness == pc = "in-node" /\ Len(started) >= 2 /\ nodeOutputs[started[1]].def

\* C29: nodeOutputs changes only when the run loop stores the list of the
\* node whose run has just returned, once per node; resolving inputs,
\* reading, validating and writing the cache leave it as it is, and a list
\* once stored stays for the rest of the run.  (A new execution of the
\* script starts from a new, empty map.)
C29_OnlyRunLoopStoresOutputs ==
    [][nodeOutputs' # nodeOutputs =>
          \/ run' = run + 1 /\ \A n \in Names : ~nodeOutputs'[n].def
          \/ /\ pc = "in-node"
             /\ pc' \in {"running", "done"}
             /\ ~nodeOutputs[order[idx]].def
             /\ nodeOutputs'[order[idx]].def
             /\ \A n \in Names \ {order[idx]} : nodeOutputs'[n] = nodeOutputs[n]]_vars

\* Node b, having resolved its items from the list stored for node a, has
\* read and written the cache.
C29_Witness ==
    /\ pc = "in-node"
    /\ order[idx] = "b"
    /\ nodeOutputs["a"].def
    /\ wc.def
    /\ wc.v.i > 1
    /\ run > 1

\* C25: isValid returns false, and does not raise, for an entry one of
\* whose tracked files is missing, whatever the entry recorded for it.
C25_MissingTrackedFileInvalidates ==
    (call.op = "isValid" /\ \E fp \in DOMAIN call.entry.trackedFiles : ~fs[fp].exists)
        => call.result = FALSE /\ ~isValidThrows(call.entry, call.context)

\* An entry whose only flaw is a missing tracked file has been validated.
C25_Witness ==
    /\ call.op = "isValid"
    /\ \E fp \in DOMAIN call.entry.trackedFiles :
          ~fs[fp].exists /\ call.entry.trackedFiles[fp].source = "fileRef"
    /\ upstreamSignaturesMatch(call.entry, call.context)
    /\ listedOutputs(call.entry) # {}
    /\ \A op \in listedOutputs(call.entry) : fs[op].exists
    /\ call.result = FALSE

\* The reference an entry recorded for an upstream node does not resolve:
\* the node has not run, or has no path under the key.
upstreamUnresolvable(entry) ==
    \E nodeName \in DOMAIN entry.upstreamOutputSignatures.v :
        \/ ~nodeOutputs[nodeName].def
        \/ noPathUnder(nodeOutputs[nodeName].v,
                       entry.upstreamOutputSignatures.v[nodeName].outputKey)

checkRank(check) == IF check = "upstream" THEN 1 ELSE IF check = "access" THEN 3 ELSE 2

\* C27: isValid checks the upstream signatures, then the tracked files
\* (the mtime, the hash only when the mtime differs), then the outputs;
\* the first check that fails is the last one made and gives false, and
\* true is returned only when every check was made and passed.
C27_ChecksInOrderShortCircuit ==
    call.op = "isValid" =>
        LET made == call.checks.checks
        IN  /\ \A i, j \in 1..Len(made) :
                  i < j => checkRank(made[i].check) <= checkRank(made[j].check)
            /\ \A i \in 1..Len(made) :
                  made[i].check = "hash" =>
                      /\ i > 1
                      /\ made[i - 1].check = "stat"
                      /\ made[i - 1].subject = made[i].subject
                      /\ fs[made[i].subject].mtime
                            # call.entry.trackedFiles[made[i].subject].timestamp
            /\ \A i \in 1..Len(made) : i < Len(made) => made[i].passed
            /\ call.checks.result = call.result
            /\ ~call.result => made # <<>> /\ ~made[Len(made)].passed
            /\ call.result =>
                  /\ \A i \in 1..Len(made) : made[i].passed
                  /\ \A fp \in DOMAIN call.entry.trackedFiles :
                        \E i \in 1..Len(made) : made[i].check = "stat" /\ made[i].subject = fp
                  /\ \A op \in listedOutputs(call.entry) :
                        \E i \in 1..Len(made) : made[i].check = "access" /\ made[i].subject = op
                  /\ (call.entry.upstreamOutputSignatures.def /\ call.context.def) =>
                        \E i \in 1..Len(made) : made[i].check = "upstream"

\* The hash of a tracked file, its mtime having moved, did not match, and
\* the outputs the entry lists were not looked at.
C27_Witness ==
    /\ call.op = "isValid"
    /\ Len(call.checks.checks) >= 3
    /\ call.checks.checks[1].check = "upstream"
    /\ call.checks.checks[Len(call.checks.checks)].check = "hash"
    /\ ~call.checks.checks[Len(call.checks.checks)].passed
    /\ listedOutputs(call.entry) # {}
    /\ call.result = FALSE

\* C30: a call of resolveInput leaves the cache directory as it was: no
\* entry is created, changed or removed.
C30_ResolveInputLeavesCache == call.op = "resolveInput" => cache = StoreBefore

\* resolveInput has returned paths with an entry in the cache directory.
C30_Witness ==
    /\ call.op = "resolveInput"
    /\ call.result.ok
    /\ call.result.paths # <<>>
    /\ DOMAIN cache # {}

\* A config dependency of the node at work whose content is not the one
\* the entry read for the item recorded.
configFileModified(fp) ==
    /\ fp \in Range(wc.v.configDependencyPaths)
    /\ fp \in DOMAIN cachedEntry.v.trackedFiles
    /\ computeFileHash(fs, fp) # cachedEntry.v.trackedFiles[fp].hash

\* C24 as stated: an item whose entry was stored before the content of a
\* config dependency of its node was modified is not taken from the cache.
C24_ConfigFileChangeRecomputes ==
    (AtItem /\ cachedEntry.def /\ \E fp \in Paths : configFileModified(fp)) => ~cacheHit

\* Every entry withCache stores tracks all config dependency paths of the
\* node at work.
storedEntryTracksConfig ==
    LET before == getCache(cache, wc.v.contentSignature, wc.v.cacheKeys[wc.v.i])
        after == getCache(cache', wc.v.contentSignature, wc.v.cacheKeys[wc.v.i])
    IN  (AtItem /\ after.def /\ after # before) =>
            Range(wc.v.configDependencyPaths) \subseteq DOMAIN after.v.trackedFiles

\* C24, amended: every entry a node stores tracks all its config
\* dependency paths, and an item whose entry was stored before a config
\* dependency of its node was modified in content and modification time
\* is not taken from the cache.
C24_ConfigFileAndMtimeChangeRecomputes ==
    /\ [](  (/\ AtItem
             /\ cachedEntry.def
             /\ \E fp \in Paths :
                   /\ configFileModified(fp)
                   /\ fs[fp].mtime # cachedEntry.v.trackedFiles[fp].timestamp)
           => ~cacheHit)
    /\ [][storedEntryTracksConfig]_vars

\* In the second run an item's entry fails validation on nothing but the
\* modified stylesheet of the node's config.
C24_Witness ==
    /\ AtItem
    /\ run = 2
    /\ cachedEntry.def
    /\ configFileModified(StylesheetFile)
    /\ fs[StylesheetFile].mtime # cachedEntry.v.trackedFiles[StylesheetFile].timestamp
    /\ \A fp \in DOMAIN cachedEntry.v.trackedFiles \ {StylesheetFile} :
          fs[fp].exists /\ fs[fp].mtime = cachedEntry.v.trackedFiles[fp].timestamp
    /\ \A op \in listedOutputs(cachedEntry.v) : fs[op].exists
    /\ ~cacheHit

\* C31: withCache goes through the items in the order of the list it was
\* given, one at a time, and the list it returns has one element per item
\* in that order.
C31_ItemsInOrder ==
    /\ [](wc.def =>
            /\ Len(wc.v.results) = wc.v.i - 1
            /\ \A j \in 1..Len(wc.v.results) :
                  /\ wc.v.results[j].item = wc.v.items[j]
                  /\ wc.v.results[j].output = getOutputPath(currentNode, wc.v.items[j]))
    /\ [][(wc.def /\ wc'.def /\ wc'.v.i # wc.v.i) =>
              /\ wc'.v.i = wc.v.i + 1
              /\ wc'.v.items = wc.v.items
              /\ history' \ history = {Event("work", wc.v.items[wc.v.i])}]_vars
    /\ [][(wc.def /\ idx' = idx + 1) =>
              /\ Len(wc.v.results) = Len(wc.v.items)
              /\ Len(nodeOutputs'[order[idx]].v) = Len(wc.v.items)
              /\ \A j \in 1..Len(wc.v.items) :
                    nodeOutputs'[order[idx]].v[j]["transformed"]
                        = <<getOutputPath(currentNode, wc.v.items[j])>>]_vars

\* withCache has gone through a list of two items.
C31_Witness ==
    /\ wc.def
    /\ Len(wc.v.items) = 2
    /\ wc.v.items[1] # wc.v.items[2]
    /\ Len(wc.v.results) = 2

\* C32: withCache calls cleanExcept with the current keys before it looks
\* an item up and not again; the cache changes afterwards only on a miss,
\* by the entry of the item whose performWork has returned; a hit writes
\* nothing.
C32_WritesOnlyAfterWork ==
    /\ [][(~wc.def /\ wc'.def) =>
              cache' = cleanExcept(cache, wc'.v.contentSignature, wc'.v.cacheKeys)]_vars
    /\ [][(wc.def /\ cache' # cache) =>
              /\ AtItem
              /\ cacheMiss
              /\ fs' = performWork(fs, clock, currentNode, wc.v.items[wc.v.i],
                                   getOutputPath(currentNode, wc.v.items[wc.v.i]))
              /\ \A cp \in DOMAIN cache \cup DOMAIN cache' :
                    cp # getCachePath(wc.v.contentSignature, wc.v.cacheKeys[wc.v.i])
                        => cp \in DOMAIN cache /\ cp \in DOMAIN cache' /\ cache'[cp] = cache[cp]]_vars

\* An item was found cached in this run and its entry is the one an
\* earlier run stored.
C32_Witness ==
    \E h \in history :
        /\ h.kind = "hit"
        /\ h.run = run
        /\ run > 1
        /\ LET entry == getCache(cache, getContentSignature(getNodeData(h.node)),
                                 getCacheKey(getNodeData(h.node), h.item))
           IN  entry.def /\ entry.v.timestamp < runStartedAt

\* C34: for an item with a stored entry that isValid accepts the work is
\* not performed and the result is reported as cached; for every other item
\* the work is performed once and the result is reported as not cached.
C34_HitOrWorkOnce ==
    [][AtItem =>
          LET item == wc.v.items[wc.v.i]
              outputPath == getOutputPath(currentNode, item)
              reported(cached) ==
                  /\ wc'.def
                  /\ wc'.v.i = wc.v.i + 1
                  /\ wc'.v.results = Append(wc.v.results,
                         [item |-> item, output |-> outputPath, cached |-> cached])
          IN  IF cacheHit
              THEN /\ reported(TRUE)
                   /\ fs' = fs
                   /\ Event("work", item) \notin history'
              ELSE \/ reported(FALSE) /\ Event("work", item) \in history' \ history
                   \/ pc' = "failed"]_vars

\* C33: an item whose cache key an earlier item of the same list had is
\* not taken from the cache: its work is performed and its entry replaces
\* the earlier one.
C33_LaterWriteWins ==
    (AtItem /\ \E j \in 1..(wc.v.i - 1) : wc.v.cacheKeys[j] = wc.v.cacheKeys[wc.v.i])
        => ~cacheHit

\* C36: an entry a node stored in this run is in the cache for the rest of
\* the run: no other node's cleanExcept removes it.
C36_NodesKeepTheirEntries ==
    \A h \in history :
        (h.kind = "work" /\ h.run = run) =>
            getCache(cache, getContentSignature(getNodeData(h.node)),
                     getCacheKey(getNodeData(h.node), h.item)).def

\* C37: the entry of a node records, for every from() reference among its
\* items and config, the upstream node's output key and glob with a
\* signature.
C37_EachReferenceRecorded ==
    \A h \in history :
        (h.kind = "work" /\ h.run = run) =>
            LET node == getNodeData(h.node)
                entry == getCache(cache, getContentSignature(node), getCacheKey(node, h.item))
            IN  entry.def =>
                    \A ref \in {r \in {node.items, node.config} : inputIsNodeOutputReference(r)} :
                        /\ entry.v.upstreamOutputSignatures.def
                        /\ \E recorded \in {entry.v.upstreamOutputSignatures.v[n] :
                                                n \in DOMAIN entry.v.upstreamOutputSignatures.v} :
                              recorded.outputKey = ref.name /\ recorded.glob = ref.glob

\* C35: two nodes of one class whose processing configs differ in an
\* entry that is no fileRef, at the top level or inside stylesheetParams,
\* have different content signatures.
C35_ConfigDifferenceSeparates ==
    (/\ call.op = "getContentSignature"
     /\ call.first.class = call.second.class
     /\ \/ call.first.stylesheetParams # call.second.stylesheetParams
        \/ call.first.initialMode # call.second.initialMode)
        => call.signatures[1] # call.signatures[2]

\* C38: getCache gives an entry only for the content signature and key it
\* was stored under: no other pair of signature and key reads it.
C38_CachePathInjective ==
    call.op = "getCache" =>
        \A i \in 1..Len(call.sets) :
            <<call.sets[i].sig, call.sets[i].key>> # <<call.sig, call.key>>
                => ~(call.result.def /\ call.result.v = call.sets[i].entry)

\* The entries of a signature's keys and of the other signatures are in
\* the store as they were before.
untouched(before, after, signatures, keys) ==
    \A sig \in signatures, key \in keys :
        getCache(after, sig, key) = getCache(before, sig, key)

\* C39: cleanExcept leaves the entries of the keys it was given and every
\* entry of another content signature as they were, and clear with a
\* signature leaves every entry of another content signature as it was.
C39_CleanChangesOrphansOnly ==
    /\ call.op = "cleanExcept" =>
          /\ untouched(call.before, cache, {call.sig}, Range(call.keys))
          /\ untouched(call.before, cache, StoreSignatures \ {call.sig}, StoreKeys)
    /\ (call.op = "clear" /\ call.sig.def) =>
          untouched(call.before, cache, StoreSignatures \ {call.sig.v}, StoreKeys)

====
